---- MODULE Spec2Model ----
(***************************************************************************)
(* Refresh orchestration of kibble: the scheduler loop, the per-topic      *)
(* locks, the bounded fan-outs, the facts pipeline, the news pipeline with *)
(* its source failure counters, and the manual entry points.               *)
(*                                                                         *)
(* Time.  Every stored timestamp is kept relative to the current time, in  *)
(* minutes: rel = t - now, so a value written with time.Now() or           *)
(* datetime('now') has rel = 0 and time.Now().Add(5 * time.Minute) has     *)
(* rel = 5.  One Tick of the 60 s ticker is one minute: it lowers every    *)
(* rel by one, down to a floor below which no query of the program tells  *)
(* two values apart: -(interval + 1) for last_refreshed_at (the due query  *)
(* asks whether it is older than the interval), 0 for the two times of a   *)
(* news_refresh_status row (they are only ever shown: in the past or not). *)
(* The created_at of a story is only ever compared with the created_at of  *)
(* the other stories of its topic, so a Tick renumbers them -1, -2, ... in *)
(* their order, equal values staying equal.                                *)
(***************************************************************************)
EXTENDS Integers, Sequences, FiniteSets, TLC

\* ------------------------------------------------------------- bounds
NumFactTopics == 4     \* ids of fact topics: 1..NumFactTopics
NumNewsTopics == 3     \* ids of news topics: 1..NumNewsTopics
NumCallers == 2        \* concurrent HTTP requests that call the entry points
RefreshIntervalMinutes == 2   \* refresh_interval_minutes of every topic
NumUrls == 1           \* distinct source URLs
MaxCandidates == 1     \* longest candidate list the provider returns
NumGrams == 3          \* distinct character n-grams in the texts
MaxLines == 3          \* lines of a provider response
MaxExisting == 1       \* facts a topic has before the refresh
MaxThreshold == 5      \* largest numerator and denominator of a threshold
MaxItems == 2          \* items of a feed
MaxStories == 4        \* story summaries in one provider response
MaxPerRefresh == 2     \* largest stories_per_refresh of a topic
MaxParts == 3          \* dot-separated parts of a version, any mix of them
NumPoolSources == 6    \* sources of the topic whose scrape workers are followed
NumSettingTexts == 2   \* distinct texts a setting may hold
NumReplaceUrls == 2    \* distinct URLs among the suggested replacements
MaxReplacements == 2   \* longest candidate list of a replacement pass
MaxSessions == 1       \* rows of sessions
SessionMinutes == 2    \* minutes a session lives (7 days in the program)

\* ------------------------------------------------- program constants
FactSlots == 3         \* sem := make(chan struct{}, 3)
NewsSlots == 2         \* sem := make(chan struct{}, 2)
RemovalThreshold == 3  \* if newFailureCount >= 3
BackoffMinutes == 5    \* time.Now().Add(5 * time.Minute)
ThresholdNum == 3      \* similarity threshold 0.6 = 3/5
ThresholdDen == 5
parallelLimit == 5     \* Scraper.parallelLimit
MinContentLength == 100  \* ScrapeSource: if len(contentStr) < 100

FactIds == 1..NumFactTopics
NewsIds == 1..NumNewsTopics
Callers == 1..NumCallers
Urls == 1..NumUrls
Kinds == {"fact", "news"}

Max(a, b) == IF a > b THEN a ELSE b

\* ------------------------------------------------------------- state
VARIABLES
    locks,        \* Scheduler.locks: key -> "absent" | "free" | "held"
    run,          \* position of Scheduler.Run
    tickPending,  \* a tick waits in ticker.C (a channel of capacity 1)
    ctxDone,      \* the context given to Run is cancelled
    queue,        \* topics of the running fan-out loop not yet dispatched
    proc,         \* the goroutines: fan-out units and entry-point calls
    crashed,      \* an unrecovered panic ended the process
    db            \* the repository

vars == <<locks, run, tickPending, ctxDone, queue, proc, crashed, db>>

\* --------------------------------------------------------------- time
NoTime == [valid |-> FALSE, rel |-> 0]   \* SQL NULL, or Go's zero time.Time
Now == [valid |-> TRUE, rel |-> 0]       \* time.Now() / datetime('now')
NowPlus(minutes) == [valid |-> TRUE, rel |-> minutes]
Elapse(t, floor) == IF t.valid THEN [t EXCEPT !.rel = Max(t.rel - 1, floor)] ELSE t

\* ------------------------------------------------------------ topicKey
\* a key made of the id alone
topicKeyOfId(kind, id) == <<"fact", id>>
topicKey(kind, id) == <<kind, id>>
Keys == {topicKey(k, i) : k \in Kinds, i \in FactIds \cup NewsIds}

\* --------------------------------------------------------- goroutines
FactUnits == {<<"fact", i>> : i \in FactIds}
NewsUnits == {<<"news", i>> : i \in NewsIds}
Units == FactUnits \cup NewsUnits
CallProcs == {<<"call", c>> : c \in Callers}
Procs == Units \cup CallProcs

IsUnit(p) == p[1] # "call"
KindOfOp(op) == IF op = "RefreshNow" THEN "fact" ELSE "news"
KindOf(p) == IF IsUnit(p) THEN p[1] ELSE KindOfOp(proc[p].op)
IdOf(p) == IF IsUnit(p) THEN p[2] ELSE proc[p].id
KeyOf(p) == topicKey(KindOf(p), IdOf(p))

\* pc: "idle" no goroutine | "wait" blocked on the semaphore | "sem" holds a
\* slot | "locked" holds the topic's lock | "discover", "scrape", "replace",
\* "summarize" inside refreshNewsTopic | "scraped" inside refreshNewsTopic
\* with what was fetched in snap | "dedupe" inside refreshTopic with
\* the provider's facts in snap | "ret" returned, deferred calls pending
\* | "done" the unit has finished.  snap, removed, content are the locals
\* sources, removedSourceCount and len(scrapedContent) of refreshNewsTopic,
\* kept while the refresh still reads them.  res is "skipped" for a unit and
\* "already" for an entry point that found the lock held.  ctx is the
\* context of the HTTP request a goroutine was started with: "none" without
\* such a request, "live", and "done" once the request's handler returned.
\* instr is the local toneInstr of refreshTopic and of refreshNewsTopic: 0
\* before GetSetting has been called for it.
IdleProc == [pc |-> "idle", op |-> "none", id |-> 0, res |-> "none",
             snap |-> <<>>, removed |-> 0, content |-> 0, ctx |-> "none",
             instr |-> 0]
Returning(r) ==
    [r EXCEPT !.pc = "ret", !.snap = <<>>, !.removed = 0, !.content = 0, !.instr = 0]

\* --------------------------------------------------------- sync.Mutex
\* a TryLock that succeeds on a held mutex
TryLockBlind(l, key) == TRUE
TryLock(l, key) == l[key] # "held"
\* a lockTopic that blocks until the mutex is free, as Lock would
lockTopicBlocking(l, key) == [ok |-> TRUE, locks |-> [l EXCEPT ![key] = "held"]]
\* LoadOrStore creates the mutex of a key on its first use; TryLock takes it
\* when it is not held.
lockTopic(l, key) ==
    [ok |-> TryLock(l, key), locks |-> [l EXCEPT ![key] = "held"]]
\* a return that leaves the mutex as it is
UnlockForgotten(l, key) == l
Unlock(l, key) == [l EXCEPT ![key] = "free"]

\* ---------------------------------------------------------- repository
TopicRow == [is_active |-> TRUE, last_refreshed_at |-> NoTime]
\* a news_topics row; stories_per_refresh is positive (DEFAULT 5, and the
\* handlers store a form value only if n > 0)
NewsTopicRow(n) ==
    [is_active |-> TRUE, last_refreshed_at |-> NoTime, stories_per_refresh |-> n]
NoStatusRow == [status |-> "pending", last_refresh |-> NoTime,
                next_refresh |-> NoTime, error_message |-> ""]
\* a row inserted with two failures to its name
SourceRowWorn(url, isManual) ==
    [url |-> url, is_manual |-> isManual, is_active |-> TRUE, failure_count |-> 2]
\* a row of news_sources (its last_error text is not kept)
SourceRow(url, isManual) ==
    [url |-> url, is_manual |-> isManual, is_active |-> TRUE, failure_count |-> 0]

\* WHERE is_active = 1 AND (last_refreshed_at IS NULL OR
\*   datetime('now') > datetime(last_refreshed_at, '+N minutes'))
IsDue(t) ==
    /\ t.is_active
    /\ \/ ~t.last_refreshed_at.valid
       \/ 0 > t.last_refreshed_at.rel + RefreshIntervalMinutes

\* ORDER BY last_refreshed_at ASC NULLS FIRST (rows of equal time by id)
Before(rows, a, b) ==
    LET ta == rows[a].last_refreshed_at
        tb == rows[b].last_refreshed_at
    IN  IF ta.valid # tb.valid THEN ~ta.valid
        ELSE IF ta.valid /\ ta.rel # tb.rel THEN ta.rel < tb.rel
        ELSE a <= b

RECURSIVE OrderRows(_, _)
OrderRows(rows, S) ==
    IF S = {} THEN <<>>
    ELSE LET m == CHOOSE x \in S : \A y \in S : Before(rows, x, y)
         IN  <<m>> \o OrderRows(rows, S \ {m})

TopicsDueForRefresh(d) ==
    OrderRows(d.topics, {i \in DOMAIN d.topics : IsDue(d.topics[i])})
NewsTopicsDueForRefresh(d) ==
    OrderRows(d.news_topics, {i \in DOMAIN d.news_topics : IsDue(d.news_topics[i])})

UpdateTopicRefreshTime(d, id) ==
    IF id \in DOMAIN d.topics
    THEN [d EXCEPT !.topics[id].last_refreshed_at = Now] ELSE d
UpdateNewsTopicRefreshTime(d, id) ==
    IF id \in DOMAIN d.news_topics
    THEN [d EXCEPT !.news_topics[id].last_refreshed_at = Now] ELSE d

\* Of the two log tables the model keeps the status of the latest row of
\* each topic.
LogAPIUsage(d, id, row) ==
    [d EXCEPT !.api_usage_log[id] = row]
LogRefresh(d, type, id, status) ==
    [d EXCEPT !.refresh_log[<<type, id>>] = status]

\* an upsert that keeps the stored last_refresh when the new row has none
UpdateNewsRefreshStatusKeeping(d, id, row) ==
    [d EXCEPT !.news_refresh_status[id] =
        IF row.last_refresh.valid THEN row
        ELSE [row EXCEPT !.last_refresh = d.news_refresh_status[id].last_refresh]]
\* INSERT ... ON CONFLICT(news_topic_id) DO UPDATE SET every column
UpdateNewsRefreshStatus(d, id, row) ==
    [d EXCEPT !.news_refresh_status[id] = row]

GetActiveSourcesForNewsTopic(d, id) ==
    SelectSeq(d.news_sources[id], LAMBDA s : s.is_active)
GetSourcesForNewsTopic(d, id) == d.news_sources[id]
AddNewsSource(d, id, url, isManual) ==
    [d EXCEPT !.news_sources[id] = Append(@, SourceRow(url, isManual))]
\* a DELETE without "AND is_manual = 0"
ClearNewsSourcesForTopic(d, id) == [d EXCEPT !.news_sources[id] = <<>>]
ClearAINewsSourcesForTopic(d, id) ==
    [d EXCEPT !.news_sources[id] = SelectSeq(@, LAMBDA s : s.is_manual)]
UpdateNewsSourceStatus(row, isActive, failureCount) ==
    [row EXCEPT !.is_active = isActive, !.failure_count = failureCount]

\* a row of sessions: expires_at, as minutes from now
SessionRow == [expires_at |-> SessionMinutes]
CreateSession(d) == [d EXCEPT !.sessions = Append(@, SessionRow)]
\* DELETE FROM sessions WHERE expires_at <= datetime('now')
DeleteExpiredSessions(d) ==
    [d EXCEPT !.sessions = SelectSeq(@, LAMBDA r : r.expires_at > 0)]

\* the settings a refresh reads (the custom and summarizing instructions are
\* read and written next to the tone instructions, in the same way)
SettingKeys == {"ai_tone_instructions", "news_tone_instructions"}
SettingTexts == 1..NumSettingTexts
GetSetting(d, key) == d.settings[key]
SetSetting(d, key, value) == [d EXCEPT !.settings[key] = value]

\* ---------------------------------------------------- similarity engine
\* A text is known by the set of character n-grams Trigrams gives for it;
\* a similarity is the fraction num/den the float64 division is taken of.
Grams == 1..NumGrams
GramSets == SUBSET Grams
Threshold == [num |-> ThresholdNum, den |-> ThresholdDen]

\* json.Marshal of the list of a set's grams, and the set read back from it
RECURSIVE TrigramsToJSON(_)
TrigramsToJSON(trigrams) ==
    IF trigrams = {} THEN <<>>
    ELSE LET g == CHOOSE x \in trigrams : \A y \in trigrams : x <= y
         IN  <<g>> \o TrigramsToJSON(trigrams \ {g})
TrigramsFromJSON(data) == {data[i] : i \in 1..Len(data)}

\* the quotient without the case of two empty sets
JaccardOfUnion(a, b) ==
    LET intersection == Cardinality({k \in a : k \in b})
        union == Cardinality(a) + Cardinality(b) - intersection
    IN  IF union = 0 THEN [num |-> 0, den |-> 1]
        ELSE [num |-> intersection, den |-> union]
JaccardSimilarity(a, b) ==
    IF Cardinality(a) = 0 /\ Cardinality(b) = 0 THEN [num |-> 1, den |-> 1]
    ELSE LET intersection == Cardinality({k \in a : k \in b})
             union == Cardinality(a) + Cardinality(b) - intersection
         IN  IF union = 0 THEN [num |-> 0, den |-> 1]
             ELSE [num |-> intersection, den |-> union]
\* sim == c.threshold
Exactly(sim, threshold) == sim.num * threshold.den = threshold.num * sim.den
\* sim > c.threshold
Above(sim, threshold) == sim.num * threshold.den > threshold.num * sim.den
\* sim >= c.threshold, both with positive denominators
AtLeast(sim, threshold) == sim.num * threshold.den >= threshold.num * sim.den
IsTooSimilar(threshold, newTrigrams, existingFacts) ==
    \E i \in 1..Len(existingFacts) :
        AtLeast(JaccardSimilarity(newTrigrams, TrigramsFromJSON(existingFacts[i].trigrams)),
                threshold)

\* ------------------------------------------------------ facts pipeline
\* a row of facts: its stored trigrams and its archived flag
FactRow(trigrams, isArchived) ==
    [trigrams |-> TrigramsToJSON(trigrams), is_archived |-> isArchived]
CreateFact(d, id, trigrams) ==
    [d EXCEPT !.facts[id] = Append(@, FactRow(trigrams, FALSE))]
\* the SELECT without its is_archived = 0
GetFactTrigramsWithArchived(d, id) == d.facts[id]
\* UPDATE facts SET is_archived = 1 WHERE id = ?: i is the row's place among
\* the facts of its topic
DeleteFact(d, id, i) == [d EXCEPT !.facts[id][i].is_archived = TRUE]
RECURSIVE FactsOfTopics(_, _)
FactsOfTopics(d, S) ==
    IF S = {} THEN <<>>
    ELSE LET i == CHOOSE x \in S : \A y \in S : x <= y
         IN  d.facts[i] \o FactsOfTopics(d, S \ {i})
\* the SELECT without its topic_id = ?
GetFactTrigramsOfAnyTopic(d, id) ==
    SelectSeq(FactsOfTopics(d, DOMAIN d.facts), LAMBDA f : ~f.is_archived)
\* SELECT id, trigrams FROM facts WHERE topic_id = ? AND is_archived = 0
GetFactTrigramsForTopic(d, id) ==
    SelectSeq(d.facts[id], LAMBDA f : ~f.is_archived)
getExistingTrigrams(d, id) == GetFactTrigramsForTopic(d, id)

\* A line of the provider's text: blank, numbering alone, or a fact with
\* or without numbering in front; grams are those of the text after the
\* numbering.
BlankLines == {[numbered |-> n, body |-> FALSE, grams |-> {}] : n \in BOOLEAN}
FactLine(numbered, grams) == [numbered |-> numbered, body |-> TRUE, grams |-> grams]
\* stripNumbering: what is left of a trimmed line
stripNumbering(line) == [body |-> line.body, grams |-> line.grams]
\* ParseFactsFromText: the lines that are not empty after stripNumbering
RECURSIVE ParseFactsFromText(_)
ParseFactsFromText(text) ==
    IF text = <<>> THEN <<>>
    ELSE LET cleaned == stripNumbering(Head(text))
         IN  (IF cleaned.body THEN <<cleaned.grams>> ELSE <<>>)
             \o ParseFactsFromText(Tail(text))

APIUsageRow(errorMessage, generated, discarded) ==
    [error_message |-> errorMessage, facts_generated |-> generated,
     facts_discarded |-> discarded]
\* no row of the topic yet
NoAPIUsageRow == APIUsageRow("no row", 0, 0)
\* an error path that stamps the topic as the success path does
refreshTopicErrorStamps(d, id) ==
    LogRefresh(UpdateTopicRefreshTime(LogAPIUsage(d, id, APIUsageRow("error", 0, 0)), id),
               "facts", id, "error")
\* refreshTopic when GenerateFacts returns an error
refreshTopicError(d, id) ==
    LogRefresh(LogAPIUsage(d, id, APIUsageRow("error", 0, 0)), "facts", id, "error")

\* the loop without its append to existingTrigrams
RECURSIVE DedupLoopStale(_, _, _, _, _, _, _, _)
DedupLoopStale(d, id, facts, failed, i, existingTrigrams, generated, discarded) ==
    IF i > Len(facts)
    THEN [db |-> d, generated |-> generated, discarded |-> discarded]
    ELSE IF IsTooSimilar(Threshold, facts[i], existingTrigrams)
    THEN DedupLoopStale(d, id, facts, failed, i + 1, existingTrigrams, generated,
                        discarded + 1)
    ELSE IF i \in failed
    THEN DedupLoopStale(d, id, facts, failed, i + 1, existingTrigrams, generated,
                        discarded)
    ELSE DedupLoopStale(CreateFact(d, id, facts[i]), id, facts, failed, i + 1,
                        existingTrigrams, generated + 1, discarded)

\* the loop of refreshTopic over the returned facts: failed holds the
\* positions whose CreateFact returns an error
RECURSIVE DedupLoop(_, _, _, _, _, _, _, _)
DedupLoop(d, id, facts, failed, i, existingTrigrams, generated, discarded) ==
    IF i > Len(facts)
    THEN [db |-> d, generated |-> generated, discarded |-> discarded]
    ELSE IF IsTooSimilar(Threshold, facts[i], existingTrigrams)
    THEN DedupLoop(d, id, facts, failed, i + 1, existingTrigrams, generated, discarded + 1)
    ELSE IF i \in failed
    THEN DedupLoop(d, id, facts, failed, i + 1, existingTrigrams, generated, discarded)
    ELSE DedupLoop(CreateFact(d, id, facts[i]), id, facts, failed, i + 1,
                   Append(existingTrigrams, FactRow(facts[i], FALSE)),
                   generated + 1, discarded)
\* refreshTopic from its loop to its end, existingTrigrams being what
\* getExistingTrigrams returned
refreshTopicLoop(d, id, facts, failed, existingTrigrams) ==
    LET r == DedupLoop(d, id, facts, failed, 1, existingTrigrams, 0, 0)
    IN  LogRefresh(UpdateTopicRefreshTime(
                       LogAPIUsage(r.db, id, APIUsageRow("", r.generated, r.discarded)),
                       id),
                   "facts", id, "success")
\* refreshTopic when GenerateFacts returns a batch
refreshTopicDone(d, id, facts, failed) ==
    refreshTopicLoop(d, id, facts, failed, getExistingTrigrams(d, id))

\* ------------------------------------------------------------- scraper
\* The texts of a feed's elements: none, markup without text, or a text (the
\* full article in content:encoded and content, the summary in description
\* and summary).
Titles == {"", "title"}
FullTexts == {"", "<br>", "full text"}
ShortTexts == {"", "<br>", "short text"}
stripHTMLTags(t) == IF t = "<br>" THEN " " ELSE t
cleanText(t) == IF t = " " THEN "" ELSE t

rssItem(title, description, contentEncoded) ==
    [title |-> title, description |-> description, content_encoded |-> contentEncoded]
atomEntry(title, summary, content) ==
    [title |-> title, summary |-> summary, content |-> content]
\* what one item adds to the content: its ARTICLE line and, when there is a
\* description to write, the cleaned description
Block(title, desc) ==
    [title |-> title,
     body |-> IF desc # "" THEN <<cleanText(stripHTMLTags(desc))>> ELSE <<>>]

\* an item's description taken before its content:encoded
rssDescriptionFirst(item) ==
    IF item.description = "" THEN item.content_encoded ELSE item.description
\* desc := item.ContentEncoded; if desc == "" { desc = item.Description }
rssDesc(item) ==
    IF item.content_encoded = "" THEN item.description ELSE item.content_encoded
atomDesc(entry) ==
    IF entry.content = "" THEN entry.summary ELSE entry.content
RECURSIVE formatRSSItems(_)
formatRSSItems(items) ==
    IF items = <<>> THEN <<>>
    ELSE LET item == Head(items)
         IN  (IF item.title = "" THEN <<>> ELSE <<Block(item.title, rssDesc(item))>>)
             \o formatRSSItems(Tail(items))
RECURSIVE formatAtomEntries(_)
formatAtomEntries(entries) ==
    IF entries = <<>> THEN <<>>
    ELSE LET entry == Head(entries)
         IN  (IF entry.title = "" THEN <<>> ELSE <<Block(entry.title, atomDesc(entry))>>)
             \o formatAtomEntries(Tail(entries))

\* a result of ScrapeSource: the error, or the content as the blocks written
ScrapeError == [err |-> TRUE, content |-> <<>>]
buildScrapedContent(contentStr) == [err |-> FALSE, content |-> contentStr]

\* What a feed URL answers: "error" (the request fails, a status other than
\* 200, an HTML content type, an unreadable body), "rss" or "atom" (a body
\* that parses as such, with its items), "other" (a body that parses as
\* neither).
scrapeRSSFeed(feed) ==
    IF feed.kind = "error" THEN ScrapeError
    ELSE IF feed.kind = "rss" /\ Len(feed.items) > 0
    THEN buildScrapedContent(formatRSSItems(feed.items))
    ELSE IF feed.kind = "atom" /\ Len(feed.items) > 0
    THEN buildScrapedContent(formatAtomEntries(feed.items))
    ELSE ScrapeError
\* posts: whether FetchPosts fails, and the number of posts it returns
scrapeRedditSource(posts) ==
    IF posts.error \/ posts.count = 0 THEN ScrapeError
    ELSE buildScrapedContent([k \in 1..posts.count |-> Block("REDDIT POST", "post")])
\* the collector's visit: page.error, or the length of what the handlers
\* wrote
scrapeHTML(page) ==
    IF page.error \/ page.length < MinContentLength THEN ScrapeError
    ELSE buildScrapedContent(<<Block("", "page text")>>)
\* A site is a URL and what it serves: shape is what the URL looks like
\* (IsRedditURL, isRSSURL, neither).
ScrapeSource(site) ==
    IF site.shape = "reddit" THEN scrapeRedditSource(site.posts)
    ELSE IF site.shape = "feed" /\ ~scrapeRSSFeed(site.feed).err
    THEN scrapeRSSFeed(site.feed)
    ELSE scrapeHTML(site.page)

ItemLists(I) == UNION {[1..k -> I] : k \in 0..MaxItems}
NoFeed == [kind |-> "other", items |-> <<>>]
Feeds ==
    {[kind |-> k, items |-> <<>>] : k \in {"error", "other"}}
    \cup {[kind |-> "rss", items |-> l] :
             l \in ItemLists({rssItem(t, d, c) : t \in Titles, d \in ShortTexts, c \in FullTexts})}
    \cup {[kind |-> "atom", items |-> l] :
             l \in ItemLists({atomEntry(t, d, c) : t \in Titles, d \in ShortTexts, c \in FullTexts})}
Pages ==
    {[error |-> e, length |-> n] :
        e \in BOOLEAN, n \in {0, MinContentLength - 1, MinContentLength}}
NoPage == [error |-> TRUE, length |-> 0]
Posts == {[error |-> e, count |-> n] : e \in BOOLEAN, n \in 0..1}
NoPosts == [error |-> TRUE, count |-> 0]
Sites ==
    {[shape |-> "reddit", posts |-> n, feed |-> NoFeed, page |-> NoPage] : n \in Posts}
    \cup {[shape |-> "feed", posts |-> NoPosts, feed |-> f, page |-> g] :
             f \in Feeds, g \in Pages}
    \cup {[shape |-> "page", posts |-> NoPosts, feed |-> NoFeed, page |-> g] : g \in Pages}

\* ------------------------------------------------------- news pipeline
InProgressRow == [status |-> "in_progress", last_refresh |-> NoTime,
                  next_refresh |-> NoTime, error_message |-> ""]
FailedRow(err) == [status |-> "failed", last_refresh |-> NoTime,
                   next_refresh |-> NowPlus(BackoffMinutes),
                   error_message |-> err]
CompletedRow == [status |-> "completed", last_refresh |-> Now,
                 next_refresh |-> NowPlus(RefreshIntervalMinutes),
                 error_message |-> ""]

\* a failure that leaves the status row as it is
handleNewsRefreshErrorSilent(d, id, err) == d
handleNewsRefreshError(d, id, err) ==
    UpdateNewsRefreshStatus(d, id, FailedRow(err))
logNewsRefreshError(d, id, err) ==
    LogRefresh(d, "news", id, "error")
\* the two calls every failing step of refreshNewsTopic makes
FailNews(d, id, err) ==
    logNewsRefreshError(handleNewsRefreshError(d, id, err), id, err)

\* One scrape result applied to the source's row: the rows left of it
\* (none when the source is deleted).  src is the source as it was fetched.
\* a failure counted twice
NewFailureCountDouble(src) == src.failure_count + 2
NewFailureCount(src) == src.failure_count + 1
\* a source at the threshold deactivated and kept
ApplyResultDeactivating(row, src, result) ==
    IF result = "fail"
    THEN <<UpdateNewsSourceStatus(row, NewFailureCount(src) < RemovalThreshold,
                                  NewFailureCount(src))>>
    ELSE IF result = "ok" /\ src.failure_count > 0
    THEN <<UpdateNewsSourceStatus(row, TRUE, src.failure_count - 1)>>
    ELSE <<row>>
ApplyResult(row, src, result) ==
    IF result = "fail"
    THEN IF NewFailureCount(src) >= RemovalThreshold
         THEN <<>>
         ELSE <<UpdateNewsSourceStatus(row, TRUE, NewFailureCount(src))>>
    ELSE IF result = "ok" /\ src.failure_count > 0
    THEN <<UpdateNewsSourceStatus(row, TRUE, src.failure_count - 1)>>
    ELSE <<row>>

RECURSIVE ApplyResults(_, _, _, _)
ApplyResults(rows, snap, results, i) ==
    IF i > Len(rows) THEN <<>>
    ELSE (IF i <= Len(snap) THEN ApplyResult(rows[i], snap[i], results[i])
          ELSE <<rows[i]>>)
         \o ApplyResults(rows, snap, results, i + 1)

removedSourceCount(snap, results) ==
    Cardinality({i \in 1..Len(snap) :
        results[i] = "fail" /\ NewFailureCount(snap[i]) >= RemovalThreshold})
\* a batch that counts for nothing once one source has failed
scrapedContentAllOrNothing(snap, results) ==
    IF \E i \in 1..Len(snap) : results[i] = "fail" THEN 0
    ELSE Cardinality({i \in 1..Len(snap) : results[i] = "ok"})
scrapedContent(snap, results) ==
    Cardinality({i \in 1..Len(snap) : results[i] = "ok"})

\* the candidates the provider returns, with what validation finds for each
Candidates(U) ==
    {[url |-> u, verdict |-> v, feed |-> 0] : u \in U, v \in {"invalid", "rejected"}}
    \cup {[url |-> u, verdict |-> "ok", feed |-> f] : u \in U, f \in {0} \cup U}
CandidateLists(U, n) == UNION {[1..k -> Candidates(U)] : k \in 0..n}
finalURL(c) == IF c.feed # 0 THEN c.feed ELSE c.url

\* the loop of discoverNewsSources over the provider's candidates
RECURSIVE AddDiscovered(_, _, _, _)
AddDiscovered(d, id, cands, i) ==
    IF i > Len(cands) THEN d
    ELSE IF cands[i].verdict # "ok" THEN AddDiscovered(d, id, cands, i + 1)
    ELSE AddDiscovered(AddNewsSource(d, id, finalURL(cands[i]), FALSE), id, cands, i + 1)
\* discoverNewsSources after a successful provider call
discoverNewsSources(d, id, cands) ==
    AddDiscovered(ClearAINewsSourcesForTopic(d, id), id, cands, 1)

\* the loop of replaceRemovedSources: existing is existingURLs, added counts
\* the loop without its "if added >= count { break }"
RECURSIVE AddReplacementsUncounted(_, _, _, _, _, _, _)
AddReplacementsUncounted(d, id, cands, i, existing, added, count) ==
    IF i > Len(cands) THEN d
    ELSE IF cands[i].url \in existing \/ cands[i].verdict # "ok"
    THEN AddReplacementsUncounted(d, id, cands, i + 1, existing, added, count)
    ELSE AddReplacementsUncounted(AddNewsSource(d, id, finalURL(cands[i]), FALSE), id,
                                  cands, i + 1, existing \cup {finalURL(cands[i])},
                                  added + 1, count)
RECURSIVE AddReplacements(_, _, _, _, _, _, _)
AddReplacements(d, id, cands, i, existing, added, count) ==
    IF i > Len(cands) \/ added >= count THEN d
    ELSE IF cands[i].url \in existing \/ cands[i].verdict # "ok"
    THEN AddReplacements(d, id, cands, i + 1, existing, added, count)
    ELSE AddReplacements(AddNewsSource(d, id, finalURL(cands[i]), FALSE), id, cands,
                         i + 1, existing \cup {finalURL(cands[i])}, added + 1, count)
replaceRemovedSources(d, id, count, cands) ==
    LET rows == GetSourcesForNewsTopic(d, id)
        existingURLs == {rows[i].url : i \in 1..Len(rows)}
    IN  AddReplacements(d, id, cands, 1, existingURLs, 0, count)

\* INSERT INTO stories: created_at defaults to datetime('now')
StoryRow == [created_at |-> 0]
CreateStory(d, id) == [d EXCEPT !.stories[id] = Append(@, StoryRow)]
\* the stories the loop of refreshNewsTopic goes through: whether the
\* CreateStory of each will return an error
StoryBatch(count, failed) == [i \in 1..count |-> [fails |-> i \in failed]]
\* the loop up to the first CreateStory that returns an error
RECURSIVE CreateStoriesAborting(_, _, _, _)
CreateStoriesAborting(d, id, stories, i) ==
    IF i > Len(stories) \/ stories[i].fails THEN d
    ELSE CreateStoriesAborting(CreateStory(d, id), id, stories, i + 1)
\* for _, story := range stories: an error of CreateStory is logged
RECURSIVE CreateStories(_, _, _, _)
CreateStories(d, id, stories, i) ==
    IF i > Len(stories) THEN d
    ELSE IF stories[i].fails THEN CreateStories(d, id, stories, i + 1)
    ELSE CreateStories(CreateStory(d, id), id, stories, i + 1)
RECURSIVE RowsAt(_, _, _)
RowsAt(rows, kept, i) ==
    IF i > Len(rows) THEN <<>>
    ELSE (IF i \in kept THEN <<rows[i]>> ELSE <<>>) \o RowsAt(rows, kept, i + 1)
\* ORDER BY created_at ASC LIMIT keep
OldestStories(rows, keep) ==
    {i \in DOMAIN rows :
        Cardinality({j \in DOMAIN rows :
                        \/ rows[j].created_at < rows[i].created_at
                        \/ rows[j].created_at = rows[i].created_at /\ j < i}) < keep}
\* ORDER BY created_at DESC LIMIT keep; a negative LIMIT is no limit.  Rows
\* of equal created_at come in an order SQLite does not specify: they are
\* equal rows here, so every such order leaves the same table.
NewestStories(rows, keep) ==
    IF keep < 0 THEN DOMAIN rows
    ELSE {i \in DOMAIN rows :
            Cardinality({j \in DOMAIN rows :
                            \/ rows[j].created_at > rows[i].created_at
                            \/ rows[j].created_at = rows[i].created_at /\ j > i}) < keep}
\* DELETE FROM stories WHERE news_topic_id = ? AND id NOT IN (SELECT ...)
DeleteOldStories(d, id, keep) ==
    [d EXCEPT !.stories[id] = RowsAt(@, NewestStories(@, keep), 1)]

\* the end of a refreshNewsTopic whose summaries were produced
refreshNewsTopicDone(d, id) ==
    LogRefresh(UpdateNewsTopicRefreshTime(
                   UpdateNewsRefreshStatus(
                       DeleteOldStories(d, id, d.news_topics[id].stories_per_refresh * 3),
                       id, CompletedRow), id),
               "news", id, "success")

\* ------------------------------------------------------------ semaphore
Slots(kind) == IF kind = "fact" THEN FactSlots ELSE NewsSlots
HoldsSlot(p) ==
    /\ IsUnit(p)
    /\ proc[p].pc \in {"sem", "locked", "discover", "scrape", "scraped", "replace",
                       "summarize", "store", "dedupe", "compare", "ret", "pool",
                       "pooled"}
SlotsInUse(kind) == Cardinality({p \in Units : p[1] = kind /\ HoldsSlot(p)})
\* a send that never blocks, as on an unbounded channel
SemUnbounded(kind) == TRUE
\* sem <- struct{}{} proceeds when the channel's buffer is not full
SemFree(kind) == SlotsInUse(kind) < Slots(kind)

\* ------------------------------------------------------------ Run loop
ElapseTopics(rows) ==
    [i \in DOMAIN rows |->
        [rows[i] EXCEPT !.last_refreshed_at =
                            Elapse(@, 0 - (RefreshIntervalMinutes + 1))]]
ElapseStories(rows) ==
    [i \in DOMAIN rows |->
        [created_at |->
            0 - (1 + Cardinality({rows[j].created_at : j \in DOMAIN rows}
                                 \cap {t \in -Len(rows)..0 :
                                          t > rows[i].created_at}))]]
ElapseSessions(rows) ==
    [i \in DOMAIN rows |-> [expires_at |-> Max(rows[i].expires_at - 1, 0)]]
ElapseStatus(rows) ==
    [i \in DOMAIN rows |->
        [rows[i] EXCEPT !.last_refresh = Elapse(@, 0),
                         !.next_refresh = Elapse(@, 0)]]

\* one period of the ticker: a minute passes and a tick is put in ticker.C
Tick ==
    /\ ~crashed
    /\ db' = [db EXCEPT !.topics = ElapseTopics(@),
                        !.news_topics = ElapseTopics(@),
                        !.news_refresh_status = ElapseStatus(@),
                        !.stories = [i \in DOMAIN @ |-> ElapseStories(@[i])],
                        !.sessions = ElapseSessions(@)]
    /\ tickPending' = TRUE
    /\ UNCHANGED <<locks, run, ctxDone, queue, proc, crashed>>

\* the context given to Run is cancelled (process shutdown)
Cancel ==
    /\ ~crashed
    /\ ~ctxDone
    /\ ctxDone' = TRUE
    /\ UNCHANGED <<locks, run, tickPending, queue, proc, crashed, db>>

\* checkAndRefresh begins: at startup, or when Run's select takes a tick.
\* It deletes the expired sessions, queries the due fact topics and enters
\* the fact fan-out loop.
checkAndRefresh ==
    /\ ~crashed
    /\ \/ run = "start" /\ UNCHANGED tickPending
       \/ run = "idle" /\ tickPending /\ tickPending' = FALSE
    /\ db' = DeleteExpiredSessions(db)
    /\ queue' = TopicsDueForRefresh(db')
    /\ run' = "fact"
    /\ UNCHANGED <<locks, ctxDone, proc, crashed>>

\* a Run that returns whenever it is between passes
RunStopAnytime ==
    /\ ~crashed
    /\ run = "idle"
    /\ run' = "stopped"
    /\ UNCHANGED <<locks, tickPending, ctxDone, queue, proc, crashed, db>>
\* Run's select takes ctx.Done() and returns
RunStop ==
    /\ ~crashed
    /\ run = "idle" /\ ctxDone
    /\ run' = "stopped"
    /\ UNCHANGED <<locks, tickPending, ctxDone, queue, proc, crashed, db>>

\* one iteration of a fan-out loop: wg.Add(1); go func(...)
Dispatch ==
    /\ ~crashed
    /\ run \in Kinds /\ queue # <<>> /\ ~ctxDone
    /\ proc' = [proc EXCEPT ![<<run, Head(queue)>>] =
                   [IdleProc EXCEPT !.pc = "wait", !.op = "unit", !.id = Head(queue)]]
    /\ queue' = Tail(queue)
    /\ UNCHANGED <<locks, run, tickPending, ctxDone, crashed, db>>

\* if ctx.Err() != nil { break }
LoopBreak ==
    /\ ~crashed
    /\ run \in Kinds /\ queue # <<>> /\ ctxDone
    /\ queue' = <<>>
    /\ UNCHANGED <<locks, run, tickPending, ctxDone, proc, crashed, db>>

\* a wg.Wait() that returns at once
UnitsFinishedEarly(kind) == TRUE
UnitsFinished(kind) ==
    \A u \in Units : u[1] = kind => proc[u].pc \in {"idle", "done"}
ResetUnits(kind) ==
    [p \in Procs |-> IF IsUnit(p) /\ p[1] = kind THEN IdleProc ELSE proc[p]]

\* wg.Wait() of the fact fan-out returns; checkAndRefreshNews queries the
\* due news topics and enters its loop
checkAndRefreshNews ==
    /\ ~crashed
    /\ run = "fact" /\ queue = <<>> /\ UnitsFinished("fact")
    /\ proc' = ResetUnits("fact")
    /\ queue' = NewsTopicsDueForRefresh(db)
    /\ run' = "news"
    /\ UNCHANGED <<locks, tickPending, ctxDone, crashed, db>>

\* wg.Wait() of the news fan-out returns and with it the pass
PassEnd ==
    /\ ~crashed
    /\ run = "news" /\ queue = <<>> /\ UnitsFinished("news")
    /\ proc' = ResetUnits("news")
    /\ run' = "idle"
    /\ UNCHANGED <<locks, tickPending, ctxDone, queue, crashed, db>>

\* ---------------------------------------------------------- fan-out unit
AcquireSlot(u) ==
    /\ ~crashed
    /\ proc[u].pc = "wait"
    /\ SemFree(u[1])
    /\ proc' = [proc EXCEPT ![u].pc = "sem"]
    /\ UNCHANGED <<locks, run, tickPending, ctxDone, queue, crashed, db>>

\* a unit that records contention as a failure of the item
UnitLockRecordsFailure(u) ==
    /\ ~crashed
    /\ proc[u].pc = "sem"
    /\ LET r == lockTopic(locks, KeyOf(u))
       IN  IF r.ok
           THEN /\ locks' = r.locks
                /\ proc' = [proc EXCEPT ![u].pc = "locked"]
                /\ db' = db
           ELSE /\ locks' = locks
                /\ proc' = [proc EXCEPT ![u].pc = "done", ![u].res = "skipped"]
                /\ db' = IF u[1] = "fact"
                         THEN refreshTopicError(db, IdOf(u))
                         ELSE FailNews(db, IdOf(u), "already being refreshed")
    /\ UNCHANGED <<run, tickPending, ctxDone, queue, crashed>>

\* a unit that looks at the topic's dueness again before it takes the lock
UnitLockIfDue(u) ==
    /\ ~crashed
    /\ proc[u].pc = "sem"
    /\ LET r == lockTopic(locks, KeyOf(u))
           due == u[1] = "fact" => IsDue(db.topics[IdOf(u)])
       IN  IF r.ok /\ due
           THEN /\ locks' = r.locks
                /\ proc' = [proc EXCEPT ![u].pc = "locked"]
           ELSE /\ locks' = locks
                /\ proc' = [proc EXCEPT ![u].pc = "done", ![u].res = "skipped"]
    /\ UNCHANGED <<run, tickPending, ctxDone, queue, crashed, db>>

\* mu, ok := s.lockTopic(key); if !ok { return }
UnitLock(u) ==
    /\ ~crashed
    /\ proc[u].pc = "sem"
    /\ LET r == lockTopic(locks, KeyOf(u))
       IN  IF r.ok
           THEN /\ locks' = r.locks
                /\ proc' = [proc EXCEPT ![u].pc = "locked"]
           ELSE /\ locks' = locks
                /\ proc' = [proc EXCEPT ![u].pc = "done", ![u].res = "skipped"]
    /\ UNCHANGED <<run, tickPending, ctxDone, queue, crashed, db>>

\* the deferred calls of a unit: mu.Unlock(), <-sem, wg.Done()
UnitReturn(u) ==
    /\ ~crashed
    /\ proc[u].pc = "ret"
    /\ locks' = Unlock(locks, KeyOf(u))
    /\ proc' = [proc EXCEPT ![u].pc = "done"]
    /\ UNCHANGED <<run, tickPending, ctxDone, queue, crashed, db>>

\* ---------------------------------------------------------- entry points
\* the first statements of RefreshNow, RefreshNewsNow, DiscoverSourcesNow
Enter(c, op, id) ==
    /\ ~crashed
    /\ proc[c].pc = "idle"
    /\ LET r == lockTopic(locks, topicKey(KindOfOp(op), id))
       IN  IF r.ok
           THEN /\ locks' = r.locks
                /\ proc' = [proc EXCEPT ![c] =
                       [IdleProc EXCEPT !.pc = "locked", !.op = op, !.id = id]]
           ELSE /\ locks' = locks
                /\ proc' = [proc EXCEPT ![c] =
                       [IdleProc EXCEPT !.op = op, !.id = id, !.res = "already"]]
    /\ UNCHANGED <<run, tickPending, ctxDone, queue, crashed, db>>

\* handleNewsTopicRefresh: go s.sched.RefreshNewsNow(r.Context(), id)
handleNewsTopicRefresh(c, id) ==
    /\ ~crashed
    /\ proc[c].pc = "idle"
    /\ proc' = [proc EXCEPT ![c] =
           [IdleProc EXCEPT !.pc = "go", !.op = "RefreshNewsNow", !.id = id,
                            !.ctx = "live"]]
    /\ UNCHANGED <<locks, run, tickPending, ctxDone, queue, crashed, db>>
\* the handler writes "Refresh started..." and returns: net/http cancels
\* the context of a request when its handler returns
handleNewsTopicRefreshReturns(c) ==
    /\ ~crashed
    /\ proc[c].ctx = "live"
    /\ proc' = [proc EXCEPT ![c].ctx = "done"]
    /\ UNCHANGED <<locks, run, tickPending, ctxDone, queue, crashed, db>>
\* the goroutine of the handler runs RefreshNewsNow up to its lockTopic
RefreshNewsNowStarts(c) ==
    /\ ~crashed
    /\ proc[c].pc = "go"
    /\ LET r == lockTopic(locks, topicKey("news", proc[c].id))
       IN  IF r.ok
           THEN /\ locks' = r.locks
                /\ proc' = [proc EXCEPT ![c].pc = "locked"]
           ELSE /\ locks' = locks
                /\ proc' = [proc EXCEPT ![c] =
                       [IdleProc EXCEPT !.op = "RefreshNewsNow", !.id = proc[c].id,
                                        !.res = "already"]]
    /\ UNCHANGED <<run, tickPending, ctxDone, queue, crashed, db>>

\* handleFactDelete: the fact is archived
handleFactDelete(id, i) ==
    /\ ~crashed
    /\ i \in 1..Len(db.facts[id]) /\ ~db.facts[id][i].is_archived
    /\ db' = DeleteFact(db, id, i)
    /\ UNCHANGED <<locks, run, tickPending, ctxDone, queue, proc, crashed>>

\* handleLoginSubmit with the right password: a session is created
handleLoginSubmit ==
    /\ ~crashed
    /\ Len(db.sessions) < MaxSessions
    /\ db' = CreateSession(db)
    /\ UNCHANGED <<locks, run, tickPending, ctxDone, queue, proc, crashed>>

\* handleSettingsUpdate: SetSetting for every key whose form value is not
\* empty (0 is the empty value)
handleSettingsUpdate ==
    /\ ~crashed
    /\ \E form \in [SettingKeys -> {0} \cup SettingTexts] :
         db' = [db EXCEPT !.settings =
                   [k \in SettingKeys |-> IF form[k] # 0 THEN form[k] ELSE @[k]]]
    /\ UNCHANGED <<locks, run, tickPending, ctxDone, queue, proc, crashed>>

RefreshNow(c, id) == Enter(c, "RefreshNow", id)
RefreshNewsNow(c, id) == Enter(c, "RefreshNewsNow", id)
DiscoverSourcesNow(c, id) == Enter(c, "DiscoverSourcesNow", id)

\* the deferred mu.Unlock() of an entry point, and its return
CallReturn(c) ==
    /\ ~crashed
    /\ proc[c].pc = "ret"
    /\ locks' = Unlock(locks, KeyOf(c))
    /\ proc' = [proc EXCEPT ![c] =
           IdleProc]
    /\ UNCHANGED <<run, tickPending, ctxDone, queue, crashed, db>>

\* ------------------------------------------------- facts pipeline steps
\* RefreshNow: s.db.GetTopic(topicID) returns an error
RefreshNowMissing(c) ==
    /\ ~crashed
    /\ proc[c].pc = "locked" /\ proc[c].op = "RefreshNow"
    /\ proc[c].id \notin DOMAIN db.topics
    /\ proc' = [proc EXCEPT ![c] = Returning(@)]
    /\ UNCHANGED <<locks, run, tickPending, ctxDone, queue, crashed, db>>

InRefreshTopic(p) ==
    /\ proc[p].pc = "locked" /\ KindOf(p) = "fact"
    /\ IsUnit(p) \/ proc[p].id \in DOMAIN db.topics

\* the batch the loop of refreshTopic goes through: the trigrams of each
\* returned fact, and whether its CreateFact will return an error
Batch(facts, failed) ==
    [i \in 1..Len(facts) |-> [trigrams |-> facts[i], fails |-> i \in failed]]
BatchFacts(batch) == [i \in 1..Len(batch) |-> batch[i].trigrams]
BatchFailed(batch) == {i \in 1..Len(batch) : batch[i].fails}

\* refreshTopic, GenerateFacts returning the facts parsed from a text of T;
\* W holds the sets of positions at which CreateFact may fail
refreshTopic(p, T, W) ==
    /\ ~crashed
    /\ InRefreshTopic(p)
    /\ \E text \in T, failed \in W :
           proc' = [proc EXCEPT ![p].pc = "dedupe",
                                ![p].instr = GetSetting(db, "ai_tone_instructions"),
                                ![p].snap = Batch(ParseFactsFromText(text), failed)]
    /\ UNCHANGED <<locks, run, tickPending, ctxDone, queue, crashed, db>>

\* refreshTopic from getExistingTrigrams to its end
refreshTopicStore(p) ==
    /\ ~crashed
    /\ proc[p].pc = "dedupe"
    /\ db' = refreshTopicDone(db, IdOf(p), BatchFacts(proc[p].snap),
                              BatchFailed(proc[p].snap))
    /\ proc' = [proc EXCEPT ![p] = Returning(@)]
    /\ UNCHANGED <<locks, run, tickPending, ctxDone, queue, crashed>>

\* The same in two steps, for the interleavings of refreshes: the read of
\* getExistingTrigrams, then the loop with its writes and the end.
getExistingTrigramsRead(p) ==
    /\ ~crashed
    /\ proc[p].pc = "dedupe"
    /\ proc' = [proc EXCEPT ![p].pc = "compare",
                            ![p].snap = <<@, getExistingTrigrams(db, IdOf(p))>>]
    /\ UNCHANGED <<locks, run, tickPending, ctxDone, queue, crashed, db>>
refreshTopicCompare(p) ==
    /\ ~crashed
    /\ proc[p].pc = "compare"
    /\ db' = refreshTopicLoop(db, IdOf(p), BatchFacts(proc[p].snap[1]),
                              BatchFailed(proc[p].snap[1]), proc[p].snap[2])
    /\ proc' = [proc EXCEPT ![p] = Returning(@)]
    /\ UNCHANGED <<locks, run, tickPending, ctxDone, queue, crashed>>

\* refreshTopic, GenerateFacts returning an error
refreshTopicFails(p) ==
    /\ ~crashed
    /\ InRefreshTopic(p)
    /\ db' = refreshTopicError(db, IdOf(p))
    /\ proc' = [proc EXCEPT ![p] = Returning(@)]
    /\ UNCHANGED <<locks, run, tickPending, ctxDone, queue, crashed>>

\* a panic inside refreshTopic.  The goroutine of the fan-out has no
\* recover: the panic ends the process.  Under RefreshNow the panic unwinds
\* through the deferred Unlock to the HTTP server's recoveryMiddleware.
refreshTopicPanics(p) ==
    /\ ~crashed
    /\ InRefreshTopic(p) \/ proc[p].pc = "dedupe"
    /\ IF IsUnit(p)
       THEN crashed' = TRUE /\ UNCHANGED proc
       ELSE /\ proc' = [proc EXCEPT ![p] = Returning(@)]
            /\ UNCHANGED crashed
    /\ UNCHANGED <<locks, run, tickPending, ctxDone, queue, db>>

\* -------------------------------------------------- news pipeline steps
InNewsRefresh(p) == KindOf(p) = "news" /\ proc[p].op # "DiscoverSourcesNow"

\* the refresh runs on the context of a request whose handler has returned:
\* a call given that context fails without being made
RequestGone(p) == ~IsUnit(p) /\ proc[p].ctx = "done"
\* refreshNewsTopic up to the first provider or network call
refreshNewsTopicBegin(p) ==
    /\ ~crashed
    /\ proc[p].pc = "locked" /\ InNewsRefresh(p)
    /\ LET id == IdOf(p)
           d1 == UpdateNewsRefreshStatus(db, id, InProgressRow)
           sources == GetActiveSourcesForNewsTopic(d1, id)
       IN  IF id \notin DOMAIN db.news_topics
           THEN /\ db' = db
                /\ proc' = [proc EXCEPT ![p] = Returning(@)]
           ELSE /\ db' = d1
                /\ proc' = [proc EXCEPT
                       ![p].pc = IF sources = <<>> THEN "discover" ELSE "scrape",
                       ![p].snap = sources]
    /\ UNCHANGED <<locks, run, tickPending, ctxDone, queue, crashed>>

\* if len(sources) == 0: discoverNewsSources, then the sources again
refreshNewsTopicBootstrap(p, L) ==
    /\ ~crashed
    /\ proc[p].pc = "discover" /\ InNewsRefresh(p)
    /\ LET id == IdOf(p)
       IN  \/ /\ db' = FailNews(db, id, "discover sources")
              /\ proc' = [proc EXCEPT ![p] = Returning(@)]
           \/ \E cands \in L :
                LET d1 == discoverNewsSources(db, id, cands)
                    sources == GetActiveSourcesForNewsTopic(d1, id)
                IN  /\ ~RequestGone(p)
                    /\ IF sources = <<>>
                       THEN /\ db' = FailNews(d1, id, "no sources available")
                            /\ proc' = [proc EXCEPT ![p] = Returning(@)]
                       ELSE /\ db' = d1
                            /\ proc' = [proc EXCEPT ![p].pc = "scrape",
                                   ![p].snap = sources]
    /\ UNCHANGED <<locks, run, tickPending, ctxDone, queue, crashed>>

\* ScrapeSources gives one result for each source; it may return before
\* some are in when its context is cancelled (the scheduler's context, or
\* the context of the HTTP request behind an entry point).
ResultValues(p) ==
    IF IsUnit(p) /\ ~ctxDone THEN {"ok", "fail"}
    ELSE IF RequestGone(p) THEN {"none"}
    ELSE {"ok", "fail", "none"}
\* a replacement pass after every scrape
ReplacementAlways(removed) == TRUE
ReplacementWanted(removed) == removed > 0

\* ScrapeSources and the loop over its results
refreshNewsTopicScrape(p) ==
    /\ ~crashed
    /\ proc[p].pc = "scrape" /\ InNewsRefresh(p)
    /\ \E results \in [1..Len(proc[p].snap) -> ResultValues(p)] :
         LET id == IdOf(p)
             snap == proc[p].snap
             d1 == [db EXCEPT !.news_sources[id] = ApplyResults(@, snap, results, 1)]
             k == removedSourceCount(snap, results)
             n == scrapedContent(snap, results)
         IN  IF ReplacementWanted(k)
             THEN /\ db' = d1
                  /\ proc' = [proc EXCEPT ![p].pc = "replace", ![p].snap = <<>>,
                                 ![p].removed = k, ![p].content = n]
             ELSE IF n = 0
             THEN /\ db' = FailNews(d1, id, "failed to scrape any content")
                  /\ proc' = [proc EXCEPT ![p] = Returning(@)]
             ELSE /\ db' = d1
                  /\ proc' = [proc EXCEPT ![p].pc = "summarize", ![p].snap = <<>>,
                                 ![p].content = n]
    /\ UNCHANGED <<locks, run, tickPending, ctxDone, queue, crashed>>

\* ScrapeSources: every source's URL has been fetched, S being what the
\* URLs may serve
ScrapeSourcesFetch(p, S) ==
    /\ ~crashed
    /\ proc[p].pc = "scrape" /\ InNewsRefresh(p)
    /\ \E sites \in [1..Len(proc[p].snap) -> S] :
           proc' = [proc EXCEPT
                      ![p].pc = "scraped",
                      ![p].snap = [i \in 1..Len(sites) |->
                                     [source |-> proc[p].snap[i], site |-> sites[i]]]]
    /\ UNCHANGED <<locks, run, tickPending, ctxDone, queue, crashed, db>>

\* the results ScrapeSources returns for what was fetched, and the loop
\* over them; snap becomes scrapedContent
scrapeResults(fetched) ==
    [i \in 1..Len(fetched) |-> ScrapeSource(fetched[i].site)]
RECURSIVE appendContent(_, _)
appendContent(results, i) ==
    IF i > Len(results) THEN <<>>
    ELSE (IF results[i].err THEN <<>> ELSE <<results[i].content>>)
         \o appendContent(results, i + 1)
refreshNewsTopicScraped(p) ==
    /\ ~crashed
    /\ proc[p].pc = "scraped" /\ InNewsRefresh(p)
    /\ LET id == IdOf(p)
           snap == [i \in 1..Len(proc[p].snap) |-> proc[p].snap[i].source]
           res == scrapeResults(proc[p].snap)
           results == [i \in 1..Len(res) |-> IF res[i].err THEN "fail" ELSE "ok"]
           d1 == [db EXCEPT !.news_sources[id] = ApplyResults(@, snap, results, 1)]
           k == removedSourceCount(snap, results)
           n == scrapedContent(snap, results)
       IN  IF ReplacementWanted(k)
           THEN /\ db' = d1
                /\ proc' = [proc EXCEPT ![p].pc = "replace",
                               ![p].snap = appendContent(res, 1),
                               ![p].removed = k, ![p].content = n]
           ELSE IF n = 0
           THEN /\ db' = FailNews(d1, id, "failed to scrape any content")
                /\ proc' = [proc EXCEPT ![p] = Returning(@)]
           ELSE /\ db' = d1
                /\ proc' = [proc EXCEPT ![p].pc = "summarize",
                               ![p].snap = appendContent(res, 1),
                               ![p].content = n]
    /\ UNCHANGED <<locks, run, tickPending, ctxDone, queue, crashed>>

\* replaceRemovedSources, then the check of len(scrapedContent)
refreshNewsTopicReplace(p, L) ==
    /\ ~crashed
    /\ proc[p].pc = "replace" /\ InNewsRefresh(p)
    /\ \E d1 \in {db} \cup {replaceRemovedSources(db, IdOf(p), proc[p].removed, cands) :
                              cands \in L} :
         IF proc[p].content = 0
         THEN /\ db' = FailNews(d1, IdOf(p), "failed to scrape any content")
              /\ proc' = [proc EXCEPT ![p] = Returning(@)]
         ELSE /\ db' = d1
              /\ proc' = [proc EXCEPT ![p].pc = "summarize", ![p].removed = 0]
    /\ UNCHANGED <<locks, run, tickPending, ctxDone, queue, crashed>>

\* ScrapeSources worker by worker.  From its first iteration on, snap holds
\* for every source its worker: "none" not launched, "wait" launched and
\* before sem <- struct{}{}, "run" inside ScrapeSource, and "ok", "fail",
\* "panic" once the worker has appended its result (content, error, the
\* error of the recover) and finished.
Pool(p) ==
    IF proc[p].pc = "scrape"
    THEN [i \in 1..Len(proc[p].snap) |-> [source |-> proc[p].snap[i], worker |-> "none"]]
    ELSE proc[p].snap
Finished(w) == w \in {"ok", "fail", "panic"}
\* one iteration of the loop over the sources: return results when the
\* context is done, launch the next worker otherwise
ScrapeSourcesLaunch(p) ==
    /\ ~crashed
    /\ proc[p].pc \in {"scrape", "pool"} /\ InNewsRefresh(p)
    /\ \E i \in 1..Len(Pool(p)) :
         /\ Pool(p)[i].worker = "none"
         /\ \A j \in 1..(i - 1) : Pool(p)[j].worker # "none"
         /\ IF ctxDone
            THEN proc' = [proc EXCEPT ![p].pc = "pooled", ![p].snap = Pool(p)]
            ELSE proc' = [proc EXCEPT ![p].pc = "pool",
                                      ![p].snap = [Pool(p) EXCEPT ![i].worker = "wait"]]
    /\ UNCHANGED <<locks, run, tickPending, ctxDone, queue, crashed, db>>
\* sem <- struct{}{} of worker i
WorkerAcquire(p, i) ==
    /\ ~crashed
    /\ proc[p].pc = "pool" /\ i \in 1..Len(proc[p].snap)
    /\ proc[p].snap[i].worker = "wait"
    /\ Cardinality({j \in 1..Len(proc[p].snap) : proc[p].snap[j].worker = "run"})
           < parallelLimit
    /\ proc' = [proc EXCEPT ![p].snap[i].worker = "run"]
    /\ UNCHANGED <<locks, run, tickPending, ctxDone, queue, crashed, db>>
\* ScrapeSource of worker i returns and the worker appends its result
WorkerReturns(p, i) ==
    /\ ~crashed
    /\ proc[p].pc = "pool" /\ i \in 1..Len(proc[p].snap)
    /\ proc[p].snap[i].worker = "run"
    /\ \E result \in {"ok", "fail"} :
         proc' = [proc EXCEPT ![p].snap[i].worker = result]
    /\ UNCHANGED <<locks, run, tickPending, ctxDone, queue, crashed, db>>
\* ScrapeSource of worker i panics: the deferred recover appends an error
WorkerPanics(p, i) ==
    /\ ~crashed
    /\ proc[p].pc = "pool" /\ i \in 1..Len(proc[p].snap)
    /\ proc[p].snap[i].worker = "run"
    /\ proc' = [proc EXCEPT ![p].snap[i].worker = "panic"]
    /\ UNCHANGED <<locks, run, tickPending, ctxDone, queue, crashed, db>>
\* wg.Wait() after the loop, and return results
ScrapeSourcesWait(p) ==
    /\ ~crashed
    /\ proc[p].pc = "pool" /\ InNewsRefresh(p)
    /\ \A i \in 1..Len(proc[p].snap) : Finished(proc[p].snap[i].worker)
    /\ proc' = [proc EXCEPT ![p].pc = "pooled"]
    /\ UNCHANGED <<locks, run, tickPending, ctxDone, queue, crashed, db>>
\* the loop of refreshNewsTopic over the results ScrapeSources returned
refreshNewsTopicPooled(p) ==
    /\ ~crashed
    /\ proc[p].pc = "pooled" /\ InNewsRefresh(p)
    /\ LET id == IdOf(p)
           snap == [i \in 1..Len(proc[p].snap) |-> proc[p].snap[i].source]
           results == [i \in 1..Len(snap) |->
                         IF proc[p].snap[i].worker = "ok" THEN "ok"
                         ELSE IF Finished(proc[p].snap[i].worker) THEN "fail"
                         ELSE "none"]
           d1 == [db EXCEPT !.news_sources[id] = ApplyResults(@, snap, results, 1)]
           k == removedSourceCount(snap, results)
           n == scrapedContent(snap, results)
       IN  IF ReplacementWanted(k)
           THEN /\ db' = d1
                /\ proc' = [proc EXCEPT ![p].pc = "replace", ![p].snap = <<>>,
                               ![p].removed = k, ![p].content = n]
           ELSE IF n = 0
           THEN /\ db' = FailNews(d1, id, "failed to scrape any content")
                /\ proc' = [proc EXCEPT ![p] = Returning(@)]
           ELSE /\ db' = d1
                /\ proc' = [proc EXCEPT ![p].pc = "summarize", ![p].snap = <<>>,
                               ![p].content = n]
    /\ UNCHANGED <<locks, run, tickPending, ctxDone, queue, crashed>>

\* SummarizeContent, whose response holds any of the numbers K of story
\* summaries, and the loop that stores them; W holds the sets of positions
\* at which CreateStory may fail
refreshNewsTopicSummarize(p, K, W) ==
    /\ ~crashed
    /\ proc[p].pc = "summarize" /\ InNewsRefresh(p)
    /\ \/ /\ db' = FailNews(db, IdOf(p), "summarize content")
          /\ proc' = [proc EXCEPT ![p] = Returning(@)]
       \/ \E stories \in K, failed \in W :
            /\ ~RequestGone(p)
            /\ db' = CreateStories(db, IdOf(p), StoryBatch(stories, failed), 1)
            /\ proc' = [proc EXCEPT ![p].pc = "store",
                                    ![p].snap = StoryBatch(stories, failed),
                                    ![p].instr = GetSetting(db, "news_tone_instructions")]
    /\ UNCHANGED <<locks, run, tickPending, ctxDone, queue, crashed>>

\* the rest of refreshNewsTopic: DeleteOldStories and the completion
refreshNewsTopicCleanup(p) ==
    /\ ~crashed
    /\ proc[p].pc = "store" /\ InNewsRefresh(p)
    /\ db' = refreshNewsTopicDone(db, IdOf(p))
    /\ proc' = [proc EXCEPT ![p] = Returning(@)]
    /\ UNCHANGED <<locks, run, tickPending, ctxDone, queue, crashed>>

\* the deferred recover of safeRefreshNewsTopic
safeRefreshNewsTopicRecover(d, id) ==
    UpdateNewsRefreshStatus(d, id, FailedRow("panic"))

\* a panic inside refreshNewsTopic, during one of its external calls
refreshNewsTopicPanics(p) ==
    /\ ~crashed
    /\ proc[p].pc \in {"discover", "scrape", "replace", "summarize"}
    /\ InNewsRefresh(p)
    /\ db' = safeRefreshNewsTopicRecover(db, IdOf(p))
    /\ proc' = [proc EXCEPT ![p] = Returning(@)]
    /\ UNCHANGED <<locks, run, tickPending, ctxDone, queue, crashed>>

\* DiscoverSourcesNow after its lock: discoverNewsSources
DiscoverSources(c, L) ==
    /\ ~crashed
    /\ proc[c].pc = "locked" /\ proc[c].op = "DiscoverSourcesNow"
    /\ \/ /\ db' = db
          /\ proc' = [proc EXCEPT ![c] = [Returning(@) EXCEPT !.res = "error"]]
       \/ /\ proc[c].id \in DOMAIN db.news_topics
          /\ \E cands \in L :
               db' = discoverNewsSources(db, proc[c].id, cands)
          /\ proc' = [proc EXCEPT ![c] = [Returning(@) EXCEPT !.res = "ok"]]
    /\ UNCHANGED <<locks, run, tickPending, ctxDone, queue, crashed>>

\* -------------------------------------------------------------- updater
\* A string is the sequence of its characters.
HasPrefix(s, prefix) == Len(s) >= Len(prefix) /\ SubSeq(s, 1, Len(prefix)) = prefix
TrimPrefix(s, prefix) ==
    IF HasPrefix(s, prefix) THEN SubSeq(s, Len(prefix) + 1, Len(s)) ELSE s
HasSuffix(s, suffix) ==
    Len(s) >= Len(suffix) /\ SubSeq(s, Len(s) - Len(suffix) + 1, Len(s)) = suffix
TrimSuffix(s, suffix) ==
    IF HasSuffix(s, suffix) THEN SubSeq(s, 1, Len(s) - Len(suffix)) ELSE s
\* strings.Index for a separator of one character: from 0, or -1
Index(s, sep) ==
    IF \E i \in 1..Len(s) : s[i] = sep
    THEN (CHOOSE i \in 1..Len(s) : s[i] = sep /\ \A j \in 1..(i - 1) : s[j] # sep) - 1
    ELSE 0 - 1
RECURSIVE Split(_, _)
Split(s, sep) ==
    LET idx == Index(s, sep)
    IN  IF idx < 0 THEN <<s>>
        ELSE <<SubSeq(s, 1, idx)>> \o Split(SubSeq(s, idx + 2, Len(s)), sep)
DigitValue == "0" :> 0 @@ "1" :> 1 @@ "2" :> 2 @@ "3" :> 3
RECURSIVE DecimalValue(_, _)
DecimalValue(digits, n) ==
    IF digits = <<>> THEN n
    ELSE DecimalValue(Tail(digits), 10 * n + DigitValue[Head(digits)])
\* strconv.Atoi: an optional sign and at least one digit
Atoi(s) ==
    LET signed == s # <<>> /\ s[1] \in {"+", "-"}
        digits == IF signed THEN Tail(s) ELSE s
    IN  IF digits = <<>> \/ \E i \in 1..Len(digits) : digits[i] \notin DOMAIN DigitValue
        THEN [err |-> TRUE, n |-> 0]
        ELSE [err |-> FALSE,
              n |-> IF signed /\ s[1] = "-" THEN 0 - DecimalValue(digits, 0)
                    ELSE DecimalValue(digits, 0)]
isSemver(s) ==
    LET parts == Split(s, ".")
    IN  /\ Len(parts) >= 2 /\ Len(parts) <= 3
        /\ \A i \in 1..Len(parts) : ~Atoi(parts[i]).err
parseSemver(s) ==
    LET parts == Split(s, ".")
    IN  [i \in 1..3 |-> IF i <= Len(parts) THEN Atoi(parts[i]).n ELSE 0]
Dev == <<"d", "e", "v">>
Unknown == <<"u", "n", "k", "n", "o", "w", "n">>
Dirty == <<"-", "d", "i", "r", "t", "y">>
\* for i := 0; i < 3; i++: the first part that differs decides
RECURSIVE LaterFrom(_, _, _)
LaterFrom(latParts, curParts, i) ==
    IF i > 3 THEN FALSE
    ELSE IF latParts[i] > curParts[i] THEN TRUE
    ELSE IF latParts[i] < curParts[i] THEN FALSE
    ELSE LaterFrom(latParts, curParts, i + 1)
\* an isNewer that leaves the text after the first dash in place
isNewerOfWhole(current, latest) ==
    LET cur == TrimSuffix(TrimPrefix(current, <<"v">>), Dirty)
    IN  IF cur = Dev \/ cur = Unknown \/ ~isSemver(cur) THEN TRUE
        ELSE LaterFrom(parseSemver(TrimPrefix(latest, <<"v">>)), parseSemver(cur), 1)
isNewer(current, latest) ==
    LET undirty == TrimSuffix(TrimPrefix(current, <<"v">>), Dirty)
        idx == Index(undirty, "-")
        cur == IF idx > 0 THEN SubSeq(undirty, 1, idx) ELSE undirty
        lat == TrimPrefix(latest, <<"v">>)
    IN  IF cur = Dev \/ cur = Unknown \/ ~isSemver(cur) THEN TRUE
        ELSE LaterFrom(parseSemver(lat), parseSemver(cur), 1)

\* The versions: an optional v, parts joined by dots, and what git describe
\* and a modified work tree append.
NumberTexts == {<<"0">>, <<"2">>, <<"1", "0">>}
PartTexts == NumberTexts \cup {<<>>, <<"a">>}
Describe == <<"-", "3", "-", "g", "a">>
Suffixes == {<<>>, Dirty, Describe, Describe \o Dirty}
PartLists(P) == UNION {[1..n -> P] : n \in 2..MaxParts}
Cores ==
    {<<part>> : part \in PartTexts \cup {Dev, Unknown}}
        \cup PartLists(PartTexts) \cup {[i \in 1..(MaxParts + 1) |-> <<"0">>]}
Versions == [v : BOOLEAN, parts : Cores, suffix : Suffixes]
Tags == [v : BOOLEAN, parts : PartLists(NumberTexts), suffix : {<<>>}]
RECURSIVE Join(_, _)
Join(parts, sep) ==
    IF Len(parts) = 1 THEN parts[1]
    ELSE parts[1] \o <<sep>> \o Join(Tail(parts), sep)
TextOfVersion(version) ==
    (IF version.v THEN <<"v">> ELSE <<>>) \o Join(version.parts, ".") \o version.suffix

\* CheckForUpdate with the tag_name of the latest release, or a failed request
CheckForUpdate(c, T) ==
    /\ ~crashed
    /\ proc[c].pc = "idle"
    /\ \/ proc' = [proc EXCEPT ![c] =
                    [IdleProc EXCEPT !.pc = "checked", !.op = "CheckForUpdate",
                                     !.res = "error"]]
       \/ \E tag \in T :
            LET latestVersion == TrimPrefix(TextOfVersion(tag), <<"v">>)
            IN  proc' = [proc EXCEPT ![c] =
                    [IdleProc EXCEPT
                        !.pc = "checked", !.op = "CheckForUpdate", !.snap = tag,
                        !.res = IF isNewer(TextOfVersion(db.version), latestVersion)
                                THEN "update" ELSE "up to date"]]
    /\ UNCHANGED <<locks, run, tickPending, ctxDone, queue, crashed, db>>
\* the caller has its answer
CheckForUpdateReturn(c) ==
    /\ ~crashed
    /\ proc[c].pc = "checked"
    /\ proc' = [proc EXCEPT ![c] = IdleProc]
    /\ UNCHANGED <<locks, run, tickPending, ctxDone, queue, crashed, db>>

\* ------------------------------------------------- reddit rate limiter
\* Time is counted in tenths of a second.  db.lastRequest is
\* time.Since(c.lastRequest), capped at minInterval: the zero time of a new
\* client is "long ago".  db.mu is the caller holding c.mu (<<>> when free) and
\* db.after[c] what is left of the timer caller c started with time.After.
minInterval == 11
NewClient == [mu |-> <<>>, lastRequest |-> minInterval, after |-> [c \in CallProcs |-> 0]]
Unlimited(elapsed) == FALSE
RateLimited(elapsed) == elapsed < minInterval
\* a tenth of a second passes
TenthPasses ==
    /\ ~crashed
    /\ db' = [db EXCEPT
                !.lastRequest = IF @ < minInterval THEN @ + 1 ELSE @,
                !.after = [c \in CallProcs |-> IF @[c] > 0 THEN @[c] - 1 ELSE 0]]
    /\ UNCHANGED <<locks, run, tickPending, ctxDone, queue, proc, crashed>>
\* a caller enters waitForRateLimit and blocks at c.mu.Lock()
waitForRateLimit(c) ==
    /\ ~crashed
    /\ proc[c].pc = "idle"
    /\ proc' = [proc EXCEPT ![c] =
            [IdleProc EXCEPT !.pc = "lock", !.op = "waitForRateLimit", !.ctx = "live"]]
    /\ UNCHANGED <<locks, run, tickPending, ctxDone, queue, crashed, db>>
\* the caller's context is cancelled
CancelCaller(c) ==
    /\ ~crashed
    /\ proc[c].pc \in {"lock", "wait"}
    /\ proc[c].ctx = "live"
    /\ proc' = [proc EXCEPT ![c].ctx = "done"]
    /\ UNCHANGED <<locks, run, tickPending, ctxDone, queue, crashed, db>>
\* the caller gets the lock and reads the clock: either it has to wait, and
\* starts its timer, or it is granted at once
waitForRateLimitLocked(c) ==
    /\ ~crashed
    /\ proc[c].pc = "lock"
    /\ db.mu = <<>>
    /\ LET elapsed == db.lastRequest
       IN  IF RateLimited(elapsed)
           THEN /\ db' = [db EXCEPT !.mu = c, !.after[c] = minInterval - elapsed]
                /\ proc' = [proc EXCEPT ![c].pc = "wait"]
           ELSE /\ db' = [db EXCEPT !.lastRequest = 0]
                /\ proc' = [proc EXCEPT ![c].pc = "ret", ![c].res = "ok"]
    /\ UNCHANGED <<locks, run, tickPending, ctxDone, queue, crashed>>
\* case <-time.After(wait): the grant; the deferred Unlock runs
waitForRateLimitGranted(c) ==
    /\ ~crashed
    /\ proc[c].pc = "wait"
    /\ db.after[c] = 0
    /\ db' = [db EXCEPT !.mu = <<>>, !.lastRequest = 0]
    /\ proc' = [proc EXCEPT ![c].pc = "ret", ![c].res = "ok"]
    /\ UNCHANGED <<locks, run, tickPending, ctxDone, queue, crashed>>
\* case <-ctx.Done(): ctx.Err() is returned; the deferred Unlock runs
waitForRateLimitCancelled(c) ==
    /\ ~crashed
    /\ proc[c].pc = "wait"
    /\ proc[c].ctx = "done"
    /\ db' = [db EXCEPT !.mu = <<>>, !.after[c] = 0]
    /\ proc' = [proc EXCEPT ![c].pc = "ret", ![c].res = "error"]
    /\ UNCHANGED <<locks, run, tickPending, ctxDone, queue, crashed>>
\* the caller goes on with what it got
waitForRateLimitReturn(c) ==
    /\ ~crashed
    /\ proc[c].pc = "ret"
    /\ proc[c].op = "waitForRateLimit"
    /\ proc' = [proc EXCEPT ![c] = IdleProc]
    /\ UNCHANGED <<locks, run, tickPending, ctxDone, queue, crashed, db>>

\* ------------------------------------------------------- specifications
InitWithStories(F, N, sources, facts, perRefresh, stories) ==
    /\ locks = [k \in Keys |-> "absent"]
    /\ run = "start"
    /\ tickPending = FALSE
    /\ ctxDone = FALSE
    /\ queue = <<>>
    /\ proc = [p \in Procs |-> IdleProc]
    /\ crashed = FALSE
    /\ db = [topics |-> [i \in F |-> TopicRow],
             news_topics |-> [i \in N |-> NewsTopicRow(perRefresh)],
             news_refresh_status |-> [i \in NewsIds |-> NoStatusRow],
             news_sources |-> [i \in NewsIds |-> IF i \in N THEN sources[i] ELSE <<>>],
             refresh_log |-> [k \in {"facts", "news"} \X (FactIds \cup NewsIds) |-> ""],
             facts |-> facts,
             api_usage_log |-> [i \in FactIds |-> NoAPIUsageRow],
             stories |-> [i \in NewsIds |-> IF i \in N THEN stories ELSE <<>>],
             settings |-> [k \in SettingKeys |-> 1],
             sessions |-> <<>>]
InitWithFacts(F, N, sources, facts) ==
    InitWithStories(F, N, sources, facts, 1, <<>>)
NoFacts == [i \in FactIds |-> <<>>]
InitWith(F, N, sources) == InitWithFacts(F, N, sources, NoFacts)

\* the groups of steps the specifications are made of
Shutdown == Cancel \/ RunStop \/ LoopBreak
RunLoop == checkAndRefresh \/ Dispatch \/ checkAndRefreshNews \/ PassEnd
UnitSteps == \E u \in Units : AcquireSlot(u) \/ UnitLock(u) \/ UnitReturn(u)
FactSteps(T, W) ==
    \E p \in Procs :
        \/ refreshTopic(p, T, W)
        \/ refreshTopicStore(p)
        \/ refreshTopicFails(p)
        \/ refreshTopicPanics(p)
\* the facts pipeline with its read and its writes as two steps
FactReadSteps(T, W) ==
    \E p \in Procs :
        \/ refreshTopic(p, T, W)
        \/ getExistingTrigramsRead(p)
        \/ refreshTopicCompare(p)
        \/ refreshTopicFails(p)
StoryWriteSteps(L, K, W) ==
    \E p \in Procs :
        \/ refreshNewsTopicBegin(p)
        \/ refreshNewsTopicBootstrap(p, L)
        \/ refreshNewsTopicScrape(p)
        \/ refreshNewsTopicReplace(p, L)
        \/ refreshNewsTopicSummarize(p, K, W)
        \/ refreshNewsTopicCleanup(p)
        \/ refreshNewsTopicPanics(p)
\* the news pipeline when every story write succeeds
StorySteps(L, K) == StoryWriteSteps(L, K, {{}})
\* the news pipeline with a provider that returns no story
NewsSteps(L) == StorySteps(L, {0})
FactCalls(C, T) ==
    \E c \in C :
        \/ \E id \in T : RefreshNow(c, id)
        \/ RefreshNowMissing(c)
        \/ CallReturn(c)
NewsCalls(C, T, L) ==
    \E c \in C :
        \/ \E id \in T : RefreshNewsNow(c, id)
        \/ \E id \in T : DiscoverSourcesNow(c, id)
        \/ DiscoverSources(c, L)
        \/ CallReturn(c)

OneSource == [i \in NewsIds |-> <<SourceRow(1, TRUE)>>]
\* topic 1 has no source yet, the source of topic 2 failed twice in earlier
\* refreshes
WornSources ==
    [i \in NewsIds |-> IF i = 1 THEN <<>>
                       ELSE IF i = 2 THEN <<UpdateNewsSourceStatus(SourceRow(1, TRUE), TRUE, 2)>>
                       ELSE <<SourceRow(1, TRUE)>>]
Suggestions == CandidateLists(Urls, MaxCandidates)

\* Spec: one fact topic and one news topic, refreshed by the startup pass of
\* the scheduler and by concurrent calls of the three entry points; the
\* provider suggests no source.
Init == InitWith({1}, {1}, OneSource)
Next ==
    \/ RunLoop
    \/ UnitSteps
    \/ FactSteps({<<>>}, {{}})
    \/ NewsSteps({<<>>})
    \/ FactCalls(CallProcs, {1, 2})
    \/ NewsCalls(CallProcs, {1}, {<<>>})
Spec == Init /\ [][Next]_vars

\* NewsSpec: one news topic, refreshed pass after pass as the minutes go by,
\* and by one concurrent caller.
NewsInit == InitWith({}, {1}, OneSource)
NewsNext ==
    \/ Tick
    \/ Shutdown
    \/ RunLoop
    \/ UnitSteps
    \/ NewsSteps(Suggestions)
    \/ NewsCalls({<<"call", 1>>}, {1}, Suggestions)
NewsSpec == NewsInit /\ [][NewsNext]_vars

\* StatusSpec: the news topic of NewsSpec with a provider that suggests no
\* source, refreshed pass after pass as the minutes go by, and by one
\* concurrent caller.
StatusInit == InitWith({}, {1}, OneSource)
StatusNext ==
    \/ Tick
    \/ Shutdown
    \/ RunLoop
    \/ UnitSteps
    \/ NewsSteps({<<>>})
    \/ NewsCalls({<<"call", 1>>}, {1}, {<<>>})
StatusSpec == StatusInit /\ [][StatusNext]_vars

\* FactSpec: the fact topics alone, with concurrent RefreshNow calls.
FactInit == InitWith({1, 2}, {}, OneSource)
FactNext ==
    \/ Tick
    \/ Shutdown
    \/ RunLoop
    \/ UnitSteps
    \/ FactSteps({<<>>}, {{}})
    \/ FactCalls(CallProcs, {1, NumFactTopics})
FactSpec == FactInit /\ [][FactNext]_vars

\* RunSpec: Run from its start to its return over one fact topic and one
\* news topic, with ticks and cancellation and no entry point called.  In
\* RunFairSpec every goroutine that can take a step takes one, and the
\* select of Run, which chooses among its ready cases at random, takes
\* ctx.Done() if that is ready again and again.
RunInit == InitWith({1}, {1}, OneSource)
RunNext ==
    \/ Tick
    \/ Shutdown
    \/ RunLoop
    \/ UnitSteps
    \/ FactSteps({<<>>}, {{}})
    \/ NewsSteps({<<>>})
RunSpec == RunInit /\ [][RunNext]_vars
RunFairSpec ==
    /\ RunSpec
    /\ WF_vars(RunLoop \/ LoopBreak)
    /\ WF_vars(UnitSteps \/ FactSteps({<<>>}, {{}}) \/ NewsSteps({<<>>}))
    /\ SF_vars(RunStop)

\* ScrapeSpec: the startup pass over news topic 1, without sources, and news
\* topic 2, whose source failed twice before; the source's URL may be of
\* any shape and serve any of Sites; the provider suggests no source.
ScrapeSteps(S) ==
    \E p \in Procs :
        \/ refreshNewsTopicBegin(p)
        \/ refreshNewsTopicBootstrap(p, {<<>>})
        \/ ScrapeSourcesFetch(p, S)
        \/ refreshNewsTopicScraped(p)
        \/ refreshNewsTopicReplace(p, {<<>>})
        \/ refreshNewsTopicSummarize(p, {0}, {{}})
        \/ refreshNewsTopicCleanup(p)
        \/ refreshNewsTopicPanics(p)
ScrapeInit == InitWith({}, {1, 2}, WornSources)
ScrapeNext ==
    \/ RunLoop
    \/ UnitSteps
    \/ ScrapeSteps(Sites)
ScrapeSpec == ScrapeInit /\ [][ScrapeNext]_vars

\* DedupSpec: the startup pass over one fact topic that has up to
\* MaxExisting facts, some archived; the provider returns up to MaxLines
\* lines, or the five numbered lines of which the second and the fourth
\* share 4 of 5 grams with the first.
Lines == BlankLines \cup {FactLine(n, g) : n \in BOOLEAN, g \in GramSets}
ExampleText ==
    <<FactLine(TRUE, {1, 2, 3, 4, 5}), FactLine(TRUE, {1, 2, 3, 4}),
      FactLine(TRUE, {6, 7}), FactLine(TRUE, {2, 3, 4, 5}), FactLine(TRUE, {8, 9})>>
Texts == UNION {[1..k -> Lines] : k \in 0..MaxLines} \cup {ExampleText}
FailSets == SUBSET (1..MaxLines)
ExistingFacts ==
    UNION {[1..k -> {FactRow(g, a) : g \in GramSets, a \in BOOLEAN}] : k \in 0..MaxExisting}
DedupInit ==
    \E existing \in ExistingFacts :
        InitWithFacts({1}, {}, OneSource,
                      [i \in FactIds |-> IF i = 1 THEN existing ELSE <<>>])
DedupNext ==
    \/ RunLoop
    \/ UnitSteps
    \/ FactSteps(Texts, FailSets)
DedupSpec == DedupInit /\ [][DedupNext]_vars

\* SimSpec: as DedupSpec with texts of one line and no failing write; the
\* thresholds a configuration may give are the quotients up to MaxThreshold.
OneLineTexts == [1..1 -> Lines]
Thresholds == {[num |-> n, den |-> d] : n \in (0 - 1)..MaxThreshold, d \in 1..MaxThreshold}
SimNext ==
    \/ RunLoop
    \/ UnitSteps
    \/ FactSteps(OneLineTexts, {{}})
SimSpec == DedupInit /\ [][SimNext]_vars

\* FanOutSpec: the startup pass over more due topics than there are slots;
\* the provider suggests no source.
FanOutInit == InitWith(FactIds, NewsIds, WornSources)
FanOutNext ==
    \/ Shutdown
    \/ RunLoop
    \/ UnitSteps
    \/ FactSteps({<<>>}, {{}})
    \/ NewsSteps({<<>>})
FanOutSpec == FanOutInit /\ [][FanOutNext]_vars
\* the runtime keeps scheduling the goroutines that can take a step
FanOutFairSpec == FanOutSpec /\ WF_vars(FanOutNext)

\* StorySpec: one news topic of any stories_per_refresh, without stories at
\* first, refreshed pass after pass as the minutes go by; the provider
\* answers with any number of story summaries, the number asked for or not.
StoryCounts == 0..MaxStories
StoryInit ==
    \E n \in 1..MaxPerRefresh :
        InitWithStories({}, {1}, OneSource, NoFacts, n, <<>>)
StoryNext ==
    \/ Tick
    \/ RunLoop
    \/ UnitSteps
    \/ StorySteps({<<>>}, StoryCounts)
StorySpec == StoryInit /\ [][StoryNext]_vars

\* UpdateSpec: a build of any version asks for updates, the latest release
\* having any tag of two to MaxParts numbers.
UpdateInit ==
    /\ locks = [k \in Keys |-> "absent"]
    /\ run = "start"
    /\ tickPending = FALSE
    /\ ctxDone = FALSE
    /\ queue = <<>>
    /\ proc = [p \in Procs |-> IdleProc]
    /\ crashed = FALSE
    /\ \E version \in Versions : db = [version |-> version]
UpdateNext ==
    \/ CheckForUpdate(<<"call", 1>>, Tags)
    \/ CheckForUpdateReturn(<<"call", 1>>)
UpdateSpec == UpdateInit /\ [][UpdateNext]_vars

\* PoolSpec: the startup pass over one news topic with more sources than
\* ScrapeSources runs at once, its scrape followed worker by worker, and the
\* scheduler's context cancelled at any moment.
PoolSources == [i \in NewsIds |-> [k \in 1..NumPoolSources |-> SourceRow(k, TRUE)]]
PoolInit == InitWith({}, {1}, PoolSources)
PoolSteps ==
    \E p \in Procs :
        \/ refreshNewsTopicBegin(p)
        \/ ScrapeSourcesLaunch(p)
        \/ \E i \in 1..NumPoolSources :
              WorkerAcquire(p, i) \/ WorkerReturns(p, i) \/ WorkerPanics(p, i)
        \/ ScrapeSourcesWait(p)
        \/ refreshNewsTopicPooled(p)
        \/ refreshNewsTopicSummarize(p, {0}, {{}})
        \/ refreshNewsTopicCleanup(p)
        \/ refreshNewsTopicPanics(p)
PoolNext ==
    \/ Shutdown
    \/ RunLoop
    \/ UnitSteps
    \/ PoolSteps
PoolSpec == PoolInit /\ [][PoolNext]_vars

\* HandlerSpec: one news topic refreshed by the startup pass and through the
\* refresh button of the UI, by two requests.
HandlerInit == InitWith({}, {1}, OneSource)
HandlerCalls ==
    \E c \in CallProcs :
        \/ handleNewsTopicRefresh(c, 1)
        \/ handleNewsTopicRefreshReturns(c)
        \/ RefreshNewsNowStarts(c)
        \/ CallReturn(c)
HandlerNext ==
    \/ RunLoop
    \/ UnitSteps
    \/ NewsSteps({<<>>})
    \/ HandlerCalls
HandlerSpec == HandlerInit /\ [][HandlerNext]_vars

\* SettingsSpec: the startup pass over one fact topic and the two news
\* topics of ScrapeSpec while the settings page is saved any number of times.
SettingsInit == InitWith({1}, {1, 2}, WornSources)
SettingsNext ==
    \/ handleSettingsUpdate
    \/ RunLoop
    \/ UnitSteps
    \/ FactSteps({<<>>}, {{}})
    \/ StorySteps({<<>>}, {1})
SettingsSpec == SettingsInit /\ [][SettingsNext]_vars

\* ReplaceSpec: the startup pass over the two news topics of ScrapeSpec, the
\* provider suggesting up to MaxReplacements candidates over NumReplaceUrls
\* URLs, more than the one source a refresh can lose.
ReplaceLists == CandidateLists(1..NumReplaceUrls, MaxReplacements)
ReplaceInit == InitWith({}, {1, 2}, WornSources)
ReplaceNext ==
    \/ RunLoop
    \/ UnitSteps
    \/ NewsSteps(ReplaceLists)
ReplaceSpec == ReplaceInit /\ [][ReplaceNext]_vars

\* two concurrent callers of one reddit client
RateInit ==
    /\ locks = [k \in Keys |-> "absent"]
    /\ run = "start"
    /\ tickPending = FALSE
    /\ ctxDone = FALSE
    /\ queue = <<>>
    /\ proc = [p \in Procs |-> IdleProc]
    /\ crashed = FALSE
    /\ db = NewClient
RateSteps ==
    \E c \in CallProcs :
        \/ waitForRateLimit(c)
        \/ CancelCaller(c)
        \/ waitForRateLimitLocked(c)
        \/ waitForRateLimitGranted(c)
        \/ waitForRateLimitCancelled(c)
        \/ waitForRateLimitReturn(c)
RateNext ==
    \/ TenthPasses
    \/ RateSteps
RateSpec == RateInit /\ [][RateNext]_vars

\* WriteSpec: the startup pass over one fact topic and two news topics, all
\* without facts and stories; the provider returns MaxLines facts, each one
\* of two texts that share no gram, and any number of stories; any of the
\* writes fails.
WriteLines == {FactLine(TRUE, {1, 2}), FactLine(TRUE, {3})}
WriteTexts == [1..MaxLines -> WriteLines]
WriteInit == InitWith({1}, {1, 2}, WornSources)
WriteNext ==
    \/ RunLoop
    \/ UnitSteps
    \/ FactSteps(WriteTexts, FailSets)
    \/ StoryWriteSteps({<<>>}, StoryCounts, FailSets)
WriteSpec == WriteInit /\ [][WriteNext]_vars

\* LockSpec: one fact topic without facts, refreshed pass after pass as the
\* minutes go by and by concurrent RefreshNow calls; the provider returns
\* two facts, each of two texts, and every write succeeds; a refresh reads
\* the topic's gram sets in one step and compares and writes in another.
LockTexts == [1..2 -> WriteLines]
LockInit == InitWith({1}, {}, OneSource)
LockNext ==
    \/ Tick
    \/ RunLoop
    \/ UnitSteps
    \/ FactReadSteps(LockTexts, {{}})
    \/ FactCalls(CallProcs, {1, NumFactTopics})
LockSpec == LockInit /\ [][LockNext]_vars

\* PassSpec: Run over two fact topics and one news topic, pass after pass as
\* the minutes go by, with logins, provider failures and panics; the
\* provider suggests no source.
PassInit == InitWith({1, 2}, {1}, OneSource)
PassNext ==
    \/ Tick
    \/ handleLoginSubmit
    \/ RunLoop
    \/ UnitSteps
    \/ FactSteps({<<>>}, {{}})
    \/ NewsSteps({<<>>})
PassSpec == PassInit /\ [][PassNext]_vars

\* ScopeSpec: the startup pass over two fact topics, each with no fact or one
\* of two texts, while facts are deleted from the dashboard; the provider
\* returns one fact, one of the same two texts, and every write succeeds.
ScopeFacts == {<<>>} \cup {<<FactRow(l.grams, FALSE)>> : l \in WriteLines}
ScopeInit ==
    \E first, second \in ScopeFacts :
        InitWithFacts({1, 2}, {}, OneSource,
                      [i \in FactIds |-> IF i = 1 THEN first
                                         ELSE IF i = 2 THEN second ELSE <<>>])
ScopeNext ==
    \/ RunLoop
    \/ UnitSteps
    \/ FactSteps([1..1 -> WriteLines], {{}})
    \/ \E id \in {1, 2}, i \in 1..(MaxExisting + 1) : handleFactDelete(id, i)
ScopeSpec == ScopeInit /\ [][ScopeNext]_vars

\* ================================================================ claims
InLockedSection(p) ==
    proc[p].pc \in {"locked", "discover", "scrape", "scraped", "replace",
                    "summarize", "store", "dedupe", "compare", "ret", "pool", "pooled"}
Holders(key) == {p \in Procs : InLockedSection(p) /\ KeyOf(p) = key}

\* C1: for every key (kind, id), at most one of the five operations (the
\* scheduler's fact unit and news unit, RefreshNow, RefreshNewsNow,
\* DiscoverSourcesNow) is inside its locked section, and the key's mutex is
\* held for as long as one is.
C1_OneHolderPerKey ==
    \A key \in Keys :
        /\ Cardinality(Holders(key)) <= 1
        /\ Holders(key) # {} => locks[key] = "held"
\* a news refresh or discovery holds the key while a scheduler unit and a
\* caller have both been turned away from it
C1_Contended ==
    \E p \in Procs, u \in Units, c \in CallProcs :
        /\ InLockedSection(p) /\ KeyOf(p) = KeyOf(u) /\ KeyOf(p) = KeyOf(c)
        /\ proc[u].res = "skipped"
        /\ proc[c].res = "already"

RunsFacts(c, id) ==
    /\ InLockedSection(c) /\ proc[c].op = "RefreshNow" /\ proc[c].id = id
\* C2: of RefreshNow calls for one topic id that overlap, one runs the facts
\* pipeline; a call made while the topic's lock is held returns the "already
\* being refreshed" error in that same step, having touched neither the
\* repository nor the lock, and a call made while it is free enters.
C2_SecondRefreshNowRejected ==
    /\ [](\A id \in FactIds :
              Cardinality({c \in CallProcs : RunsFacts(c, id)}) <= 1)
    /\ [][\A c \in CallProcs, id \in FactIds :
              RefreshNow(c, id) =>
                  IF locks[topicKey("fact", id)] = "held"
                  THEN /\ db' = db /\ locks' = locks
                       /\ proc'[c].pc = "idle" /\ proc'[c].res = "already"
                  ELSE RunsFacts(c, id)']_vars
\* one call runs the pipeline of topic 1 and the other was refused for it
C2_Overlap ==
    \E c \in CallProcs, e \in CallProcs :
        /\ c # e /\ RunsFacts(c, 1) /\ proc[c].pc = "locked"
        /\ proc[e].op = "RefreshNow" /\ proc[e].id = 1
        /\ proc[e].pc = "idle" /\ proc[e].res = "already"

\* C3: a scheduler unit that finds its item's lock held ends in that step,
\* giving its slot back, without a repository write (status, timestamps and
\* log rows as before, so the due queries answer as before) and without
\* taking or waiting for the lock.
C3_SkipIsSilent ==
    [][\A u \in Units :
           (UnitLock(u) /\ locks[KeyOf(u)] = "held") =>
               /\ db' = db /\ locks' = locks
               /\ TopicsDueForRefresh(db') = TopicsDueForRefresh(db)
               /\ NewsTopicsDueForRefresh(db') = NewsTopicsDueForRefresh(db)
               /\ proc'[u].pc = "done" /\ proc'[u].res = "skipped"
               /\ ~HoldsSlot(u)']_vars
\* a news unit skipped its topic, which is still due and not marked failed
C3_Skipped ==
    \E u \in NewsUnits :
        /\ proc[u].res = "skipped" /\ proc[u].pc = "done"
        /\ IsDue(db.news_topics[u[2]])
        /\ db.news_refresh_status[u[2]].status # "failed"

\* C4: at most 3 fact units and at most 2 news units hold a slot at once; a
\* unit that finds no slot free stays waiting until it takes one (it is not
\* dropped), and every dispatched unit gets one while the process is alive.
C4_BoundedFanOut ==
    /\ [](SlotsInUse("fact") <= 3 /\ SlotsInUse("news") <= 2)
    /\ [][\A u \in Units :
              proc[u].pc = "wait" => proc'[u].pc \in {"wait", "sem"}]_vars
    /\ \A u \in Units : (proc[u].pc = "wait") ~> (HoldsSlot(u) \/ crashed)
\* three fact refreshes run at once while a fourth due topic waits
C4_Saturated ==
    /\ Cardinality({u \in FactUnits : InLockedSection(u)}) = 3
    /\ \E u \in FactUnits : proc[u].pc = "wait" /\ ~SemFree("fact")

\* the rows a scrape leaves, told from the claim: a failure adds one to the
\* count and removes the source when that makes 3, a success takes one off a
\* positive count, a result that never came back changes nothing
Survives(src, result) == ~(result = "fail" /\ src.failure_count + 1 >= 3)
CountAfter(src, result) ==
    IF result = "fail" THEN src.failure_count + 1
    ELSE IF result = "ok" /\ src.failure_count > 0 THEN src.failure_count - 1
    ELSE src.failure_count
RowsAfter(snap, results) ==
    LET keep == {i \in 1..Len(snap) : Survives(snap[i], results[i])}
        nth(j) == CHOOSE i \in keep : Cardinality({k \in keep : k < i}) = j - 1
    IN  [j \in 1..Cardinality(keep) |->
            [snap[nth(j)] EXCEPT !.failure_count = CountAfter(snap[nth(j)], results[nth(j)])]]
Outcomes(snap) == [1..Len(snap) -> {"ok", "fail", "none"}]
Sources(id) == db.news_sources[id]

\* C5: every persisted source's failure count is >= 0, and the rows a scrape
\* step leaves are the fetched rows with each count changed by +1 for a
\* failed result, by -1 for a success on a positive count, and left at 0 for
\* a success on 0.
C5_FailureCountSteps ==
    /\ [](\A id \in NewsIds : \A i \in 1..Len(Sources(id)) :
              Sources(id)[i].failure_count >= 0)
    /\ [][\A p \in Procs :
              refreshNewsTopicScrape(p) =>
                  \E results \in Outcomes(proc[p].snap) :
                      /\ Sources(IdOf(p))' = RowsAfter(proc[p].snap, results)
                      /\ proc'[p].pc = "summarize" =>
                             \E j \in 1..Len(results) : results[j] = "ok"]_vars
\* a scrape of the only source of topic 1 succeeded and left it at count 1:
\* the success took one off a count of 2
C5_Forgiven ==
    \E p \in Procs :
        /\ proc[p].pc = "summarize" /\ IdOf(p) = 1 /\ proc[p].content = 1
        /\ Len(Sources(1)) = 1 /\ Sources(1)[1].failure_count = 1

Removed(p) == Len(proc[p].snap) - Len(Sources(IdOf(p))')
\* C6: no persisted source has a failure count of 3 or more and none is
\* inactive; a scrape step removes from the repository exactly the sources
\* it counts as removed, each one fetched at count 2, manual or discovered.
C6_DeletedAtThree ==
    /\ [](\A id \in NewsIds : \A i \in 1..Len(Sources(id)) :
              Sources(id)[i].failure_count < 3 /\ Sources(id)[i].is_active)
    /\ [][\A p \in Procs :
              refreshNewsTopicScrape(p) =>
                  /\ Removed(p) = (IF proc'[p].pc = "replace" THEN proc'[p].removed ELSE 0)
                  /\ Removed(p) <=
                       Cardinality({i \in 1..Len(proc[p].snap) :
                                        proc[p].snap[i].failure_count = 2})]_vars
\* a refresh has just deleted the manual source of topic 1
C6_ManualGone ==
    \E p \in Procs :
        /\ proc[p].pc = "replace" /\ IdOf(p) = 1 /\ KindOf(p) = "news"
        /\ \A i \in 1..Len(Sources(1)) : ~Sources(1)[i].is_manual

Refreshing(p) == InNewsRefresh(p) /\ InLockedSection(p)
\* C7: a refresh whose scrape of a single source fails leaves the source at
\* count 1, then 2, and deletes it at the third failure, going on to the
\* replacement pass with removedSourceCount = 1.  In general a scrape goes on
\* to the replacement pass exactly when it removed k >= 1 sources, with
\* count k; the pass is entered from nowhere else, is left for good, and
\* adds at most k sources.
C7_ReplacementOncePerRemoval ==
    [][\A p \in Procs :
          /\ (refreshNewsTopicScrape(p) /\ Len(proc[p].snap) = 1) =>
                LET src == proc[p].snap[1]
                    rows == Sources(IdOf(p))'
                IN  \/ /\ src.failure_count < 2 /\ proc'[p].pc = "ret"
                       /\ rows = <<[src EXCEPT !.failure_count = @ + 1]>>
                    \/ /\ src.failure_count = 2 /\ proc'[p].pc = "replace"
                       /\ rows = <<>> /\ proc'[p].removed = 1
                    \/ /\ proc'[p].pc = "summarize"
                       /\ rows = <<[src EXCEPT !.failure_count = Max(@ - 1, 0)]>>
                    \/ /\ proc'[p].pc = "ret" /\ rows = <<src>>
                       /\ ctxDone \/ ~IsUnit(p)
          /\ refreshNewsTopicScrape(p) =>
                /\ proc'[p].pc = "replace" <=> Removed(p) >= 1
                /\ proc'[p].pc = "replace" => proc'[p].removed = Removed(p)
          /\ (proc'[p].pc = "replace" /\ proc[p].pc # "replace") =>
                refreshNewsTopicScrape(p)
          /\ (proc[p].pc = "replace" /\ proc'[p].pc # "replace") =>
                /\ proc'[p].pc \in {"summarize", "ret"}
                /\ Len(Sources(IdOf(p))') <= Len(Sources(IdOf(p))) + proc[p].removed
          /\ (proc[p].pc = "summarize" /\ Refreshing(p)) =>
                proc'[p].pc \in {"summarize", "store", "ret"}
          /\ (proc[p].pc = "store" /\ Refreshing(p)) =>
                proc'[p].pc \in {"store", "ret"}]_vars
\* the scheduler's refresh of topic 1 deleted its only source, fetched at
\* count 2, and is at the replacement pass with a count of 1
C7_ThirdFailure ==
    /\ proc[<<"news", 1>>].pc = "replace" /\ proc[<<"news", 1>>].removed = 1
    /\ proc[<<"news", 1>>].content = 0
    /\ Sources(1) = <<>>

Status(id) == db.news_refresh_status[id]
\* C8: a status of in_progress belongs to a refresh that has not returned;
\* in_progress is written by a refresh that has taken the lock, completed
\* and failed only over the in_progress of a running refresh, completed
\* with next_refresh = now + the refresh interval and failed with
\* next_refresh = now + 5 minutes.
C8_StatusLifecycle ==
    /\ [](\A id \in NewsIds :
              Status(id).status = "in_progress" =>
                  \E p \in Procs :
                      /\ Refreshing(p) /\ IdOf(p) = id
                      /\ proc[p].pc \in {"discover", "scrape", "replace", "summarize",
                                          "store"})
    /\ [][\A id \in NewsIds :
              Status(id)'.status # Status(id).status =>
                  \E p \in Procs :
                      /\ Refreshing(p) /\ IdOf(p) = id /\ locks[KeyOf(p)] = "held"
                      /\ IF Status(id)'.status = "in_progress"
                         THEN proc[p].pc = "locked" /\ refreshNewsTopicBegin(p)
                         ELSE /\ Status(id).status = "in_progress"
                              /\ proc'[p].pc = "ret"
                              /\ \/ /\ Status(id)'.status = "completed"
                                    /\ Status(id)'.next_refresh =
                                           [valid |-> TRUE, rel |-> RefreshIntervalMinutes]
                                 \/ /\ Status(id)'.status = "failed"
                                    /\ Status(id)'.next_refresh =
                                           [valid |-> TRUE, rel |-> 5]]_vars
\* a refresh of topic 1 has failed and not yet released the lock
C8_FailedBeforeUnlock ==
    \E p \in Procs :
        /\ Refreshing(p) /\ IdOf(p) = 1 /\ proc[p].pc = "ret"
        /\ Status(1).status = "failed" /\ Status(1).next_refresh.rel = 5
        /\ locks[topicKey("news", 1)] = "held"

\* C9: the scheduler starts no refresh of a news topic whose status is
\* failed before the next_refresh recorded at the failure has elapsed.
C9_BackoffRespected ==
    [][\A u \in NewsUnits :
           refreshNewsTopicBegin(u) =>
               ~(/\ Status(u[2]).status = "failed"
                 /\ Status(u[2]).next_refresh.valid
                 /\ Status(u[2]).next_refresh.rel > 0)]_vars

\* C10: a panic inside a refresh started by the fan-out is recovered within
\* the unit: the process goes on, the unit returns through its deferred
\* calls, and the failure is recorded.
C10_PanicRecovered ==
    [][\A u \in Units :
           (refreshTopicPanics(u) \/ refreshNewsTopicPanics(u)) =>
               /\ ~crashed'
               /\ proc'[u].pc = "ret"
               /\ IF u[1] = "fact"
                  THEN db'.refresh_log[<<"facts", u[2]>>] = "error"
                  ELSE Status(u[2])'.status = "failed"]_vars

Successes(results) == Cardinality({i \in 1..Len(results) : results[i] = "ok"})
\* C11: a scrape step changes each source's row by that source's own result
\* alone, and whenever at least one source succeeded the refresh goes on,
\* through the replacement pass if sources were removed, to summarization
\* with the content of every successful source.
C11_FailuresAreLocal ==
    [][\A p \in Procs :
          /\ refreshNewsTopicScrape(p) =>
                \E results \in Outcomes(proc[p].snap) :
                    /\ Sources(IdOf(p))' = RowsAfter(proc[p].snap, results)
                    /\ IF Successes(results) >= 1
                       THEN /\ proc'[p].pc \in {"summarize", "replace"}
                            /\ proc'[p].content = Successes(results)
                       ELSE proc'[p].pc \in {"ret", "replace"}
          /\ (proc[p].pc = "replace" /\ proc[p].content >= 1
                /\ refreshNewsTopicReplace(p, Suggestions)) =>
                /\ proc'[p].pc = "summarize"
                /\ proc'[p].content = proc[p].content]_vars
\* the scheduler's refresh of topic 1 scraped two sources, one failed and
\* the other succeeded, and it is at summarization with one content
C11_OneOfTwoFailed ==
    /\ ~ctxDone
    /\ proc[<<"news", 1>>].pc = "summarize" /\ proc[<<"news", 1>>].content = 1
    /\ Len(Sources(1)) = 2
    /\ \E i \in 1..2 : Sources(1)[i].failure_count >= 1

\* the grams a stored row stands for, and "similar" as the quotient of the
\* common grams by all grams of two texts (1 for two texts without grams)
GramsOf(row) == {row.trigrams[k] : k \in 1..Len(row.trigrams)}
Similar(a, b, num, den) ==
    IF a \cup b = {} THEN num <= den
    ELSE Cardinality(a \cap b) * den >= num * Cardinality(a \cup b)
\* a step that carries p through the dedupe loop of refreshTopic
Stores(p) == proc[p].pc = "dedupe" /\ proc'[p].pc = "ret"
\* the rows of topic id a step appends to facts
Persisted(id) == SubSeq(db'.facts[id], Len(db.facts[id]) + 1, Len(db'.facts[id]))

\* C12: the facts one refresh persists are pairwise below the threshold.
C12_BatchSelfDedup ==
    [][\A p \in Procs :
          Stores(p) =>
              LET new == Persisted(IdOf(p))
              IN  \A i, j \in 1..Len(new) :
                      i < j => ~Similar(GramsOf(new[i]), GramsOf(new[j]),
                                        ThresholdNum, ThresholdDen)]_vars
\* a refresh of a topic without facts has persisted two facts and rejected a
\* third one, which can only have been too similar to one of the two
C12_RejectedInBatch ==
    \E p \in Procs :
        /\ proc[p].pc = "ret" /\ KindOf(p) = "fact"
        /\ Len(db.facts[IdOf(p)]) = 2
        /\ db.api_usage_log[IdOf(p)] = APIUsageRow("", 2, 1)

\* the facts of a batch that are similar neither to a gram set of seen nor
\* to an earlier fact of the batch that was itself kept
RECURSIVE Kept(_, _)
Kept(seen, facts) ==
    IF facts = <<>> THEN <<>>
    ELSE IF \E g \in seen : Similar(Head(facts), g, ThresholdNum, ThresholdDen)
    THEN Kept(seen, Tail(facts))
    ELSE <<Head(facts)>> \o Kept(seen \cup {Head(facts)}, Tail(facts))
\* what a dedupe step with all writes succeeding does when the facts the
\* topic is taken to have are rows
PersistsKept(p, rows) ==
    LET id == IdOf(p)
        batch == BatchFacts(proc[p].snap)
        kept == Kept({GramsOf(rows[k]) : k \in 1..Len(rows)}, batch)
        new == Persisted(id)
    IN  /\ [k \in 1..Len(new) |-> GramsOf(new[k])] = kept
        /\ \A k \in 1..Len(new) : ~new[k].is_archived
        /\ db'.api_usage_log[id] =
               APIUsageRow("", Len(kept), Len(batch) - Len(kept))
AllWritesSucceed(p) == \A k \in 1..Len(proc[p].snap) : ~proc[p].snap[k].fails
Live(rows) == SelectSeq(rows, LAMBDA f : ~f.is_archived)

C14_ProviderFailureAbortsCycle ==
    /\ [][\A p \in Procs :
              refreshTopicFails(p) =>
                  LET id == IdOf(p)
                  IN  /\ db'.facts = db.facts
                      /\ db'.topics = db.topics
                      /\ TopicsDueForRefresh(db') = TopicsDueForRefresh(db)
                      /\ db'.api_usage_log[id] = APIUsageRow("error", 0, 0)
                      /\ db'.refresh_log[<<"facts", id>>] = "error"
                      /\ \A i \in FactIds \ {id} :
                             /\ db'.api_usage_log[i] = db.api_usage_log[i]
                             /\ db'.refresh_log[<<"facts", i>>] = db.refresh_log[<<"facts", i>>]
                      /\ proc'[p].pc = "ret"
                      /\ \A q \in Procs \ {p} : proc'[q] = proc[q]
                      /\ UNCHANGED <<locks, run, tickPending, ctxDone, queue, crashed>>]_vars
    /\ [][\A p \in Procs :
              (proc[p].pc = "ret" /\ proc'[p].pc # "ret") =>
                  locks'[KeyOf(p)] = "free"]_vars
\* in one pass the refresh of topic 1 failed and returned, the topic is
\* still due with its lock free, and topic 2 was refreshed
C14_FailedAndStillDue ==
    /\ db.refresh_log[<<"facts", 1>>] = "error"
    /\ db.facts[1] = <<>>
    /\ \E k \in 1..Len(TopicsDueForRefresh(db)) : TopicsDueForRefresh(db)[k] = 1
    /\ locks[topicKey("fact", 1)] = "free"
    /\ db.refresh_log[<<"facts", 2>>] = "success"
    /\ proc[<<"fact", 1>>].pc = "done" /\ proc[<<"fact", 2>>].pc = "done"

\* the laws of C15 for one pair of gram sets
InUnitInterval(sim) == sim.den > 0 /\ 0 <= sim.num /\ sim.num <= sim.den
SameValue(s, t) == s.num * t.den = t.num * s.den
JaccardLaws(a, b) ==
    /\ InUnitInterval(JaccardSimilarity(a, b))
    /\ SameValue(JaccardSimilarity(a, b), JaccardSimilarity(b, a))
    /\ (a = {} /\ b = {}) => SameValue(JaccardSimilarity(a, b), [num |-> 1, den |-> 1])
    /\ ((a = {}) # (b = {})) => SameValue(JaccardSimilarity(a, b), [num |-> 0, den |-> 1])
JaccardLawsOn(G) == \A a, b \in G : JaccardLaws(a, b)
\* the state before Run's first pass
AtStart == run = "start"
\* the gram sets a refresh at its dedupe loop compares: those of the batch
\* and those of the topic's facts
Compared(p) ==
    {proc[p].snap[k].trigrams : k \in 1..Len(proc[p].snap)}
        \cup {GramsOf(db.facts[IdOf(p)][k]) : k \in 1..Len(db.facts[IdOf(p)])}

\* C15: JaccardSimilarity of two gram sets lies in [0, 1], is the same in
\* both orders, is 1 for two empty sets and 0 when exactly one is empty: for
\* all gram sets, and for those every refresh compares.
C15_JaccardLaws ==
    /\ AtStart => JaccardLawsOn(GramSets)
    /\ \A p \in Procs :
           proc[p].pc = "dedupe" => \A a, b \in Compared(p) : JaccardLaws(a, b)
\* a fact without grams was rejected against the topic's one fact, which has
\* no grams either
C15_EmptyAgainstEmpty ==
    \E p \in Procs :
        /\ proc[p].pc = "ret" /\ KindOf(p) = "fact"
        /\ db.facts[IdOf(p)] = <<FactRow({}, FALSE)>>
        /\ db.api_usage_log[IdOf(p)] = APIUsageRow("", 0, 1)

\* t is at most u
AtMost(t, u) == t.num * u.den <= u.num * t.den
Monotonic(newTrigrams, existingFacts) ==
    \A t, u \in Thresholds :
        (AtMost(t, u) /\ ~IsTooSimilar(t, newTrigrams, existingFacts))
            => ~IsTooSimilar(u, newTrigrams, existingFacts)
MonotonicOn(G, E) == \A a \in G, existing \in E : Monotonic(a, existing)
\* C16: a candidate that is not too similar to the existing facts at a
\* threshold is not too similar to them at any higher threshold: for all
\* gram sets and fact tables, and for the facts and the comparison set of
\* every refresh.
C16_MonotonicInThreshold ==
    /\ AtStart => MonotonicOn(GramSets, ExistingFacts)
    /\ \A p \in Procs :
           proc[p].pc = "dedupe" =>
               \A a \in Compared(p) :
                   Monotonic(a, getExistingTrigrams(db, IdOf(p)))
\* a refresh examines a fact that the configured threshold accepts and a
\* lower threshold rejects
C16_AcceptedAboveRejectedBelow ==
    \E p \in Procs :
        /\ proc[p].pc = "dedupe" /\ Len(proc[p].snap) = 1
        /\ ~IsTooSimilar(Threshold, proc[p].snap[1].trigrams,
                          getExistingTrigrams(db, IdOf(p)))
        /\ IsTooSimilar([num |-> 1, den |-> 2], proc[p].snap[1].trigrams,
                         getExistingTrigrams(db, IdOf(p)))

\* C17: every result of ScrapeSource is an error or has text: of what a
\* refresh fetched, and of the content it goes on with to summarization.
C17_ErrorOrText ==
    \A p \in Procs :
        /\ proc[p].pc = "scraped" =>
               \A k \in 1..Len(proc[p].snap) :
                   LET r == ScrapeSource(proc[p].snap[k].site)
                   IN  r.err \/ r.content # <<>>
        /\ proc[p].pc = "summarize" =>
               \A k \in 1..Len(proc[p].snap) : proc[p].snap[k] # <<>>

\* the items that get a block, and the text a block has for a field
Titled(items) == SelectSeq(items, LAMBDA i : i.title # "")
TextOf(field) == <<cleanText(stripHTMLTags(field))>>
\* what the blocks of a feed's items are built from, full being the field
\* preferred and short the other one
BuiltFrom(blocks, full, short) ==
    /\ Len(blocks) = Len(full) /\ Len(full) = Len(short)
    /\ \A j \in 1..Len(blocks) :
           /\ full[j] # "" => blocks[j].body = TextOf(full[j])
           /\ (full[j] = "" /\ short[j] # "") => blocks[j].body = TextOf(short[j])
           /\ (full[j] = "" /\ short[j] = "") => blocks[j].body = <<>>
\* a step in which the refresh of one feed source goes on with its content
ScrapedFeed(p, kind) ==
    /\ proc[p].pc = "scraped" /\ proc'[p].pc = "summarize"
    /\ Len(proc[p].snap) = 1 /\ Len(proc'[p].snap) = 1
    /\ proc[p].snap[1].site.shape = "feed"
    /\ proc[p].snap[1].site.feed.kind = kind
    /\ proc[p].snap[1].site.feed.items # <<>>

\* C18: the block of every titled RSS item has the text of content:encoded
\* whenever that is populated and the text of description only when
\* content:encoded is empty; likewise content before summary for Atom.
C18_FullTextPreferred ==
    [][\A p \in Procs :
          /\ ScrapedFeed(p, "rss") =>
                 LET items == Titled(proc[p].snap[1].site.feed.items)
                 IN  BuiltFrom(proc'[p].snap[1],
                               [j \in 1..Len(items) |-> items[j].content_encoded],
                               [j \in 1..Len(items) |-> items[j].description])
          /\ ScrapedFeed(p, "atom") =>
                 LET entries == Titled(proc[p].snap[1].site.feed.items)
                 IN  BuiltFrom(proc'[p].snap[1],
                               [j \in 1..Len(entries) |-> entries[j].content],
                               [j \in 1..Len(entries) |-> entries[j].summary])]_vars
\* a refresh has fetched an RSS feed whose first item has a title, a
\* description and content:encoded, and the block ScrapeSource builds for it
\* has the text of content:encoded
C18_BothPopulated ==
    \E p \in Procs :
        /\ proc[p].pc = "scraped" /\ Len(proc[p].snap) = 1
        /\ proc[p].snap[1].site.shape = "feed"
        /\ proc[p].snap[1].site.feed.kind = "rss"
        /\ Len(proc[p].snap[1].site.feed.items) = MaxItems
        /\ proc[p].snap[1].site.feed.items[1] = rssItem("title", "short text", "full text")
        /\ ScrapeSource(proc[p].snap[1].site).content[1].body = <<"full text">>

\* C19: Run begins a pass at startup and otherwise only by taking a tick,
\* one pass for one tick taken; it has returned only if its context is
\* cancelled; with the context cancelled and no pass in progress it returns;
\* and a fan-out loop that finds the context cancelled drops what is left of
\* its queue, no unit being started while the context is cancelled.
C19_RunUntilCancelled ==
    /\ [][/\ run = "start" /\ run' # run => run' = "fact"
          /\ (run # "fact" /\ run' = "fact") =>
                 \/ run = "start" /\ tickPending' = tickPending
                 \/ run = "idle" /\ tickPending /\ ~tickPending'
          /\ run = "stopped" => run' = "stopped"]_vars
    /\ [](run = "stopped" => ctxDone)
    /\ (ctxDone /\ run = "idle") ~> (run = "stopped")
    /\ [][ctxDone =>
             /\ \A u \in Units :
                    proc[u].pc \in {"idle", "done"} => proc'[u].pc \in {"idle", "done"}
             /\ (queue # <<>> /\ queue' # queue) => (queue' = <<>> /\ proc' = proc)]_vars
\* Run has returned after a cancellation that came before the fact topic,
\* which is still due, was dispatched
C19_StoppedBeforeDispatch ==
    /\ run = "stopped" /\ ctxDone
    /\ TopicsDueForRefresh(db) # <<>>
    /\ db.refresh_log[<<"facts", 1>>] = ""
    /\ proc[<<"fact", 1>>].pc = "idle"

\* C20: no two sources of one news topic have the same URL, whatever
\* discovery passes have run.
C20_NoSharedURL ==
    \A id \in NewsIds :
        \A i, j \in 1..Len(Sources(id)) :
            i # j => Sources(id)[i].url # Sources(id)[j].url

\* the stories of a topic and the number it keeps after a refresh
Stories(id) == db.stories[id]
KeepCount(id) == 3 * db.news_topics[id].stories_per_refresh
Storing(id) == \E p \in Procs : InNewsRefresh(p) /\ IdOf(p) = id /\ proc[p].pc = "store"

\* C21: the step that completes a news refresh of a topic with display count
\* N leaves at most 3 * N stories of the topic, leaves all of them if they
\* were no more, and deletes no story created later than one it leaves; a
\* topic has more than 3 * N stories only while a refresh of it is between
\* its story writes and its prune.
C21_PrunedToNewest ==
    /\ [](\A id \in DOMAIN db.news_topics :
            Len(Stories(id)) > KeepCount(id) => Storing(id))
    /\ [][\A p \in Procs :
            (InNewsRefresh(p) /\ proc[p].pc = "store" /\ proc'[p].pc # "store")
            => LET before == db.stories[IdOf(p)]
                   after == db'.stories[IdOf(p)]
               IN  /\ Status(IdOf(p))'.status = "completed"
                   /\ Len(after) <= KeepCount(IdOf(p))
                   /\ Len(before) <= KeepCount(IdOf(p)) => after = before
                   /\ \E kept \in SUBSET DOMAIN before :
                        /\ after = RowsAt(before, kept, 1)
                        /\ \A i \in kept : \A j \in DOMAIN before \ kept :
                              before[j].created_at <= before[i].created_at]_vars
\* a completed refresh left exactly 3 * N stories, stories of an earlier
\* minute among them, after it had stored more stories than the topic shows
C21_FullAfterPrune ==
    /\ Status(1).status = "completed"
    /\ Len(Stories(1)) = KeepCount(1)
    /\ \E i \in DOMAIN Stories(1) : Stories(1)[i].created_at < 0
    /\ Cardinality({i \in DOMAIN Stories(1) : Stories(1)[i].created_at = 0})
           > db.news_topics[1].stories_per_refresh

\* C25: the step of a news refresh that stores the stories adds at most
\* stories_per_refresh stories to the topic.
C25_AtMostPerRefresh ==
    [][\A p \in Procs :
        (InNewsRefresh(p) /\ proc[p].pc = "summarize" /\ proc'[p].pc = "store")
        => Len(db'.stories[IdOf(p)])
             <= Len(db.stories[IdOf(p)]) + db.news_topics[IdOf(p)].stories_per_refresh]_vars

\* the item a process refreshes, and the processes that run on an item
ItemOf(p) == <<KindOf(p), IdOf(p)>>
RunningOn(item) == {p \in Procs : InLockedSection(p) /\ ItemOf(p) = item}

\* C22: a unit or an entry point that comes to the lock of its item while no
\* refresh of that same item is running takes the lock in that step, whatever
\* runs on the other items, and a unit that holds a slot can always take its
\* lock step (lockTopic never waits); so the fact topic and the news topic of
\* one numeric id can be inside their refreshes together.
C22_KeysIndependent ==
    /\ [](\A u \in Units : (proc[u].pc = "sem" /\ ~crashed) => ENABLED UnitLock(u))
    /\ [][/\ \A u \in Units :
              (UnitLock(u) /\ RunningOn(ItemOf(u)) = {}) => proc'[u].pc = "locked"
          /\ \A c \in {q \in CallProcs : proc'[q] # proc[q] /\ proc[q].pc = "idle"} :
              \A id \in FactIds \cup NewsIds :
                  \A op \in {"RefreshNow", "RefreshNewsNow", "DiscoverSourcesNow"} :
                      (Enter(c, op, id) /\ RunningOn(<<KindOfOp(op), id>>) = {})
                      => proc'[c].pc = "locked"]_vars
\* fact topic 1 and news topic 1 are both in the middle of a refresh
C22_SameIdTogether ==
    \E p \in Procs, q \in Procs :
        /\ ItemOf(p) = <<"fact", 1>> /\ proc[p].pc = "dedupe"
        /\ ItemOf(q) = <<"news", 1>> /\ proc[q].pc \in {"scrape", "summarize"}
        /\ proc[q].op # "DiscoverSourcesNow"

\* a version by its pieces: two or three numbers, and the numbers
Semantic(version) ==
    /\ Len(version.parts) \in {2, 3}
    /\ \A i \in 1..Len(version.parts) : version.parts[i] \in NumberTexts
NumberOf(part) == IF part = <<"0">> THEN 0 ELSE IF part = <<"2">> THEN 2 ELSE 10
Major(version) == NumberOf(version.parts[1])
Minor(version) == NumberOf(version.parts[2])
Patch(version) == IF Len(version.parts) >= 3 THEN NumberOf(version.parts[3]) ELSE 0
Greater(a, b) ==
    \/ Major(a) > Major(b)
    \/ Major(a) = Major(b) /\ Minor(a) > Minor(b)
    \/ Major(a) = Major(b) /\ Minor(a) = Minor(b) /\ Patch(a) > Patch(b)
Plain(version) == Semantic(version) /\ version.suffix = <<>>

\* C23: the check of a build against a release tag made of numbers
\* reports an update exactly when the build's version without v, -dirty and
\* what follows its first dash is not two or three numbers or the tag is
\* greater on (major, minor, patch); for versions a, b of two or three
\* numbers isNewer(a, a) is false and isNewer(a, b), isNewer(b, a) are not
\* both true.
C23_NewerExactly ==
    \A c \in CallProcs :
        (proc[c].pc = "checked" /\ proc[c].res # "error")
        => LET current == db.version
               tag == proc[c].snap
               a == TextOfVersion(current)
               b == TextOfVersion(tag)
           IN  /\ proc[c].res = "update"
                     <=> (~Semantic(current) \/ Greater(tag, current))
               /\ Plain(current) => ~isNewer(a, a)
               /\ (Plain(current) /\ Semantic(tag))
                     => /\ ~isNewer(b, b)
                        /\ ~(isNewer(a, b) /\ isNewer(b, a))
\* build v2.2-3-ga-dirty is told of release 2.10
C23_DescribedBuildOutdated ==
    \E c \in CallProcs :
        /\ proc[c].pc = "checked" /\ proc[c].res = "update"
        /\ db.version = [v |-> TRUE, parts |-> <<(<<"2">>), (<<"2">>)>>,
                         suffix |-> Describe \o Dirty]
        /\ proc[c].snap.parts = <<(<<"2">>), (<<"1", "0">>)>>

\* IsTooSimilar against the claim's reading of it, for one candidate, one
\* list of stored facts and every threshold
SomeSimilar(newTrigrams, existingFacts, t) ==
    \E i \in 1..Len(existingFacts) :
        Similar(newTrigrams, GramsOf(existingFacts[i]), t.num, t.den)
TooSimilarExactly(newTrigrams, existingFacts) ==
    \A t \in Thresholds :
        /\ IsTooSimilar(t, newTrigrams, existingFacts)
              <=> SomeSimilar(newTrigrams, existingFacts, t)
        /\ ~IsTooSimilar(t, newTrigrams, <<>>)
TooSimilarExactlyOn(G, E) ==
    \A a \in G, existing \in E : TooSimilarExactly(a, existing)

\* C24: IsTooSimilar is true exactly when the quotient of common grams by all
\* grams of the candidate and of some stored fact is at least the threshold,
\* equality included, and false against an empty list: for all gram sets,
\* fact tables and thresholds, and for the facts every refresh examines.
C24_TooSimilarExactly ==
    /\ AtStart => TooSimilarExactlyOn(GramSets, ExistingFacts)
    /\ \A p \in Procs :
           proc[p].pc = "dedupe" =>
               \A a \in Compared(p) :
                   TooSimilarExactly(a, getExistingTrigrams(db, IdOf(p)))
\* a refresh examines a fact whose similarity to the topic's fact is 1/2: it
\* is too similar at the threshold 1/2 and to no fact of an empty table
C24_EqualToThreshold ==
    \E p \in Procs :
        /\ proc[p].pc = "dedupe" /\ Len(proc[p].snap) = 1
        /\ Len(db.facts[IdOf(p)]) = 1
        /\ SameValue(JaccardSimilarity(proc[p].snap[1].trigrams,
                                        GramsOf(db.facts[IdOf(p)][1])),
                      [num |-> 1, den |-> 2])
        /\ IsTooSimilar([num |-> 1, den |-> 2], proc[p].snap[1].trigrams,
                         getExistingTrigrams(db, IdOf(p)))
        /\ ~IsTooSimilar([num |-> 1, den |-> 2], proc[p].snap[1].trigrams, <<>>)

\* C26: when ScrapeSources returns, every source it was given has its one
\* result and no worker it launched is still on its way; at no time are more
\* than 5 of its workers inside ScrapeSource; a worker that panicked has
\* left an error result and the process is alive.
C26_OneResultPerSource ==
    \A p \in Procs :
        /\ proc[p].pc = "pooled"
              => \A i \in 1..Len(proc[p].snap) : Finished(proc[p].snap[i].worker)
        /\ proc[p].pc \in {"pool", "pooled"}
              => /\ Cardinality({i \in 1..Len(proc[p].snap) :
                                   proc[p].snap[i].worker = "run"}) <= 5
                 /\ ~crashed

\* C27: a refresh started by the refresh handler of the UI runs with a
\* context that is not cancelled, whether its handler has returned or not,
\* and it is not the handler's return that ends it.
C27_RefreshOutlivesRequest ==
    \A c \in CallProcs :
        (proc[c].op = "RefreshNewsNow" /\ proc[c].pc \notin {"idle", "ret"})
        => proc[c].ctx # "done"

\* a refresh that is past its first step and has not returned
InFlight(p) ==
    proc[p].pc \in {"discover", "scrape", "scraped", "pool", "pooled", "replace",
                    "summarize", "store", "dedupe"}

\* C28: a refresh that is past its first step has read its instruction
\* texts, and keeps the texts it has read until it returns, whatever is
\* saved on the settings page meanwhile: for fact topics and news topics.
C28_SettingsReadAtStart ==
    /\ [](\A p \in Procs : InFlight(p) => proc[p].instr # 0)
    /\ [][\A p \in Procs :
            (InFlight(p) /\ InFlight(p)' /\ proc[p].instr # 0)
            => proc'[p].instr = proc[p].instr]_vars

\* the rows a step appends to the sources of topic id
AddedSources(id) ==
    SubSeq(db'.news_sources[id], Len(db.news_sources[id]) + 1, Len(db'.news_sources[id]))
Validated(cands) == {finalURL(cands[j]) : j \in {k \in 1..Len(cands) : cands[k].verdict = "ok"}}

\* C29: the step that removes k sources of a topic takes exactly k rows away,
\* and the replacement pass that follows keeps the rows it finds and appends
\* at most k rows, each the URL under which a candidate passed validation,
\* so that the topic has no more sources than before the removals.
C29_ReplacementBounded ==
    [][\A p \in Procs :
         LET id == IdOf(p)
         IN  /\ (InNewsRefresh(p) /\ proc[p].pc = "scrape" /\ proc'[p].pc = "replace")
                   => Len(db'.news_sources[id]) = Len(db.news_sources[id]) - proc'[p].removed
             /\ (InNewsRefresh(p) /\ proc[p].pc = "replace" /\ proc'[p].pc # "replace")
                   => /\ Len(db'.news_sources[id]) >= Len(db.news_sources[id])
                      /\ SubSeq(db'.news_sources[id], 1, Len(db.news_sources[id]))
                            = db.news_sources[id]
                      /\ Len(AddedSources(id)) <= proc[p].removed
                      /\ \A cands \in ReplaceLists :
                            db'.news_sources
                                = replaceRemovedSources(db, id, proc[p].removed,
                                                        cands).news_sources
                            => \A i \in 1..Len(AddedSources(id)) :
                                   AddedSources(id)[i].url \in Validated(cands)]_vars
\* the refresh of topic 2 lost its one source and found one replacement
C29_OneForOne ==
    /\ proc[<<"news", 2>>].pc = "ret"
    /\ Len(Sources(2)) = 1
    /\ ~Sources(2)[1].is_manual /\ Sources(2)[1].failure_count = 0
    /\ Status(2).status = "failed"

\* ---------------------------------------------------------------- C30
Granted(c) == proc[c].pc \in {"lock", "wait"} /\ proc'[c].pc = "ret" /\ proc'[c].res = "ok"
Refused(c) == proc[c].pc \in {"lock", "wait"} /\ proc'[c].pc = "ret" /\ proc'[c].res = "error"
Waiters == {c \in CallProcs : proc[c].pc = "wait"}
\* C30: every grant of the rate limiter comes at least minInterval after the
\* grant before it, also with concurrent callers: only the holder of the
\* client's lock waits, so at most one caller waits at a time, and a caller
\* cancelled while it waits gets an error and leaves the last-request time as
\* it was.
C30_GrantsSpaced ==
    /\ [][\A c \in CallProcs :
            /\ Granted(c) => db.lastRequest >= minInterval /\ db'.lastRequest = 0
            /\ Refused(c) => proc[c].ctx = "done" /\ db'.lastRequest = db.lastRequest]_vars
    /\ [](Cardinality(Waiters) <= 1 /\ \A c \in Waiters : db.mu = c)
\* a caller has just been granted after it waited, and the other caller, who
\* took the lock right after that grant, waits the whole interval
C30_SecondWaitsInterval ==
    \E c, e \in CallProcs :
        /\ proc[c].pc = "ret" /\ proc[c].res = "ok"
        /\ proc[e].pc = "wait"
        /\ db.after[e] = minInterval
        /\ db.lastRequest = 0
\* a caller cancelled while it waited has its error, and the last grant is as
\* old as it was
C30_CancelledWaiter ==
    \E c \in CallProcs :
        /\ proc[c].pc = "ret" /\ proc[c].res = "error"
        /\ db.lastRequest \in 1..(minInterval - 1)
        /\ db.mu = <<>>

\* ---------------------------------------------------------------- C31
\* what the loop over a batch of facts leaves when a failed write is passed
\* over: the facts written, in order, and the number found too similar
RECURSIVE Written(_, _)
Written(seen, batch) ==
    IF batch = <<>> THEN [kept |-> <<>>, discarded |-> 0]
    ELSE LET fact == Head(batch)
         IN  IF \E g \in seen : Similar(fact.trigrams, g, ThresholdNum, ThresholdDen)
             THEN LET rest == Written(seen, Tail(batch))
                  IN  [rest EXCEPT !.discarded = @ + 1]
             ELSE IF fact.fails THEN Written(seen, Tail(batch))
             ELSE LET rest == Written(seen \cup {fact.trigrams}, Tail(batch))
                  IN  [rest EXCEPT !.kept = <<fact.trigrams>> \o @]
Succeeding(batch) == {i \in 1..Len(batch) : ~batch[i].fails}
\* C31: a failed write of a fact or a story does not end the refresh.  The
\* facts step writes every fact of the batch that is not too similar to a
\* fact of the topic or to a fact written earlier in the batch and whose own
\* write succeeds, counts the written ones as generated and only the too
\* similar ones as discarded, and stamps the topic and logs a success; the
\* story step writes every story whose write succeeds and goes on to the
\* prune, which ends with the status completed, the topic stamped and a
\* success logged.
C31_FailedWritePassedOver ==
    [][\A p \in Procs :
          /\ (Stores(p) /\ KindOf(p) = "fact") =>
                LET id == IdOf(p)
                    rows == Live(db.facts[id])
                    w == Written({GramsOf(rows[k]) : k \in 1..Len(rows)}, proc[p].snap)
                    new == Persisted(id)
                IN  /\ [k \in 1..Len(new) |-> GramsOf(new[k])] = w.kept
                    /\ db'.api_usage_log[id] = APIUsageRow("", Len(w.kept), w.discarded)
                    /\ db'.topics[id].last_refreshed_at = Now
                    /\ db'.refresh_log[<<"facts", id>>] = "success"
          /\ (InNewsRefresh(p) /\ proc[p].pc = "summarize" /\ proc'[p].pc = "store") =>
                /\ Len(db'.stories[IdOf(p)]) =
                       Len(db.stories[IdOf(p)]) + Cardinality(Succeeding(proc'[p].snap))
                /\ Status(IdOf(p))' = Status(IdOf(p))
          /\ (InNewsRefresh(p) /\ proc[p].pc = "store" /\ proc'[p] # proc[p]) =>
                /\ proc'[p].pc = "ret"
                /\ Status(IdOf(p))'.status = "completed"
                /\ db'.news_topics[IdOf(p)].last_refreshed_at = Now
                /\ db'.refresh_log[<<"news", IdOf(p)>>] = "success"]_vars
\* a facts refresh has ended normally with two facts generated and none
\* discarded, which a batch of MaxLines facts of two texts leaves only when
\* the write of a fact failed and its repetition was written; after it a news
\* refresh whose first story write failed has written the later stories
C31_WrittenAfterFailure ==
    /\ db.api_usage_log[1] = APIUsageRow("", 2, 0)
    /\ Len(db.facts[1]) = 2
    /\ db.topics[1].last_refreshed_at = Now
    /\ db.refresh_log[<<"facts", 1>>] = "success"
    /\ \E p \in Procs :
          /\ InNewsRefresh(p) /\ proc[p].pc = "store"
          /\ Len(proc[p].snap) = MaxLines /\ proc[p].snap[1].fails
          /\ Len(Stories(IdOf(p))) = MaxLines - 1

\* ---------------------------------------------------------------- C32
\* a step in which p calls lockTopic for the key
Attempts(p, key) ==
    IF IsUnit(p)
    THEN proc[p].pc = "sem" /\ KeyOf(p) = key /\ UnitLock(p)
    ELSE /\ proc[p].pc = "idle" /\ proc'[p] # proc[p]
         /\ \E id \in FactIds \cup NewsIds :
               \/ key = topicKey("fact", id) /\ RefreshNow(p, id)
               \/ key = topicKey("news", id) /\ RefreshNewsNow(p, id)
               \/ key = topicKey("news", id) /\ DiscoverSourcesNow(p, id)
\* C32: the mutex of a key is held exactly while an operation is inside its
\* locked section on that key; an operation that leaves the section, on
\* whatever path, leaves the mutex free; and a scheduler unit, RefreshNow,
\* RefreshNewsNow or DiscoverSourcesNow that tries the key while no operation
\* runs on it gets the lock.
C32_HeldWhileRunning ==
    /\ [](\A key \in Keys : locks[key] = "held" <=> Holders(key) # {})
    /\ [][\A p \in {q \in Procs : proc'[q] # proc[q]} :
            /\ (InLockedSection(p) /\ ~InLockedSection(p)')
                   => locks'[KeyOf(p)] = "free"
            /\ proc[p].pc \in {"sem", "idle"} =>
                 \A key \in {k \in {KeyOf(p)'} \cap Keys : Holders(k) = {}} :
                    Attempts(p, key)
                       => (InLockedSection(p) /\ KeyOf(p) = key /\ locks[key] = "held")']_vars
\* a call has taken the lock of news topic 1 after a refresh of the topic
\* ended in a recovered panic, and a call has taken the lock of fact topic 2,
\* which does not exist, after an earlier call for it returned
C32_TakenAgain ==
    /\ \E c \in CallProcs :
          /\ proc[c].pc = "locked" /\ KeyOf(c) = topicKey("news", 1)
          /\ Status(1).status = "failed" /\ Status(1).error_message = "panic"
    /\ \E c \in CallProcs :
          /\ proc[c].pc = "ret" /\ proc[c].op = "RefreshNow" /\ proc[c].id = 2

\* ---------------------------------------------------------------- C33
Fresh(sources) == \A i \in 1..Len(sources) : sources[i].failure_count = 0
\* C33: one news refresh does not run both discoveries.  Bootstrap discovery
\* runs only as the first call of a refresh, and the sources it hands to the
\* scrape are all at failure count 0; the scrape works on the sources it was
\* handed; it goes on to the replacement pass only when one of them was at
\* RemovalThreshold - 1 failures; and a refresh that has reached the
\* replacement pass does not come back to the bootstrap or the scrape.
C33_OneDiscoveryPerRefresh ==
    [][\A p \in Procs :
          (InNewsRefresh(p) /\ proc'[p] # proc[p]) =>
              /\ proc'[p].pc = "discover" => proc[p].pc = "locked"
              /\ proc[p].pc = "discover" =>
                    /\ proc'[p].pc \in {"scrape", "ret"}
                    /\ proc'[p].pc = "scrape" =>
                          /\ proc'[p].snap # <<>> /\ Fresh(proc'[p].snap)
                          /\ proc'[p].snap = GetActiveSourcesForNewsTopic(db', IdOf(p))
              /\ (proc[p].pc = "scrape" /\ proc'[p].pc = "replace") =>
                    \E i \in 1..Len(proc[p].snap) :
                        proc[p].snap[i].failure_count >= RemovalThreshold - 1
              /\ (proc[p].pc = "scrape" /\ Fresh(proc[p].snap)) =>
                    /\ proc'[p].pc \in {"summarize", "ret"}
                    /\ Len(Sources(IdOf(p))') = Len(Sources(IdOf(p)))
              /\ proc[p].pc \in {"replace", "summarize", "store"} =>
                    proc'[p].pc \notin {"discover", "scrape"}]_vars
\* a refresh that started without a source has discovered one, failed to
\* scrape it and ended: the source is kept, at one failure
C33_DiscoveredSourceKept ==
    \E p \in Procs :
        /\ InNewsRefresh(p) /\ proc[p].pc = "ret"
        /\ Status(1).status = "failed"
        /\ Status(1).error_message = "failed to scrape any content"
        /\ Len(Sources(1)) = 1
        /\ ~Sources(1)[1].is_manual /\ Sources(1)[1].failure_count = 1

\* ---------------------------------------------------------------- C34
LiveFacts(id) == Live(db.facts[id])
Active(u) == proc[u].pc \notin {"idle", "done"}
\* C35: a pass deletes the expired sessions, then runs the fact fan-out, then
\* the news fan-out.  The due fact topics are queried after the purge; a news
\* unit is dispatched or running only in the news part of a pass, when every
\* fact unit of the pass has finished; a fact unit only in the fact part;
\* and a pass begins only when no unit of the pass before is left, so passes
\* do not overlap.
C35_PassOrder ==
    /\ [](\A u \in Units :
            Active(u) => /\ run = u[1]
                         /\ u[1] = "news" => \A f \in FactUnits : ~Active(f))
    /\ [][/\ run' # run =>
               \/ run \in {"start", "idle"} /\ run' = "fact" /\ checkAndRefresh
               \/ run = "fact" /\ run' = "news" /\ \A f \in FactUnits : ~Active(f)
               \/ run = "news" /\ run' = "idle" /\ \A u \in Units : ~Active(u)
          /\ checkAndRefresh =>
               /\ \A u \in Units : ~Active(u)
               /\ \A i \in 1..Len(db'.sessions) : db'.sessions[i].expires_at > 0
               /\ Len(db'.sessions) =
                     Cardinality({i \in 1..Len(db.sessions) : db.sessions[i].expires_at > 0})
               /\ queue' = TopicsDueForRefresh(db')]_vars
\* a pass is in its news part with the news unit scraping, after both fact
\* topics were refreshed by its fact units, which have finished; the next
\* tick is waiting
C35_NewsAfterFacts ==
    /\ run = "news" /\ tickPending
    /\ \E u \in NewsUnits : proc[u].pc = "scrape"
    /\ \A f \in FactUnits : ~Active(f)
    /\ \A i \in DOMAIN db.topics : db.topics[i].last_refreshed_at = Now

\* ---------------------------------------------------------------- C36
\* C36: whether a fact topic is due is decided once, by the due query at the
\* start of the pass.  The fact fan-out dispatches exactly the topics that
\* query returned; a dispatched unit takes the lock whenever it is not held,
\* whatever the topic's last_refreshed_at has become since, and its refresh
\* then runs to its end, stamping the topic and logging a success.
C36_DueAtQueryOnly ==
    [][/\ (run # "fact" /\ run' = "fact") => queue' = TopicsDueForRefresh(db')
       /\ (run = "fact" /\ run' = "fact" /\ queue' # queue) => queue' = Tail(queue)
       /\ proc' # proc =>
            \A u \in FactUnits :
              /\ (proc[u].pc = "idle" /\ proc'[u].pc # "idle") =>
                     /\ run = "fact" /\ queue # <<>> /\ u[2] = Head(queue)
                     /\ proc'[u].pc = "wait"
              /\ (proc[u].pc = "sem" /\ proc'[u] # proc[u]) =>
                     proc'[u].pc = IF locks[KeyOf(u)] = "held" THEN "done" ELSE "locked"
              /\ (proc[u].pc = "compare" /\ proc'[u] # proc[u]) =>
                     /\ proc'[u].pc = "ret"
                     /\ db'.topics[u[2]].last_refreshed_at = Now
                     /\ db'.refresh_log[<<"facts", u[2]>>] = "success"]_vars
\* a unit of the pass holds the lock of a topic that is no longer due and
\* has read the facts a refresh stored after the due query: a RefreshNow of
\* the topic ran from lock to unlock between the query and the unit's lock
C36_RefreshedTwice ==
    \E u \in FactUnits :
        /\ proc[u].pc = "compare"
        /\ ~IsDue(db.topics[u[2]])
        /\ proc[u].snap[2] # <<>>
        /\ db.refresh_log[<<"facts", u[2]>>] = "success"
        /\ \A c \in CallProcs : proc[c].pc = "idle"

\* ---------------------------------------------------------------- C37
Manual(rows) == SelectSeq(rows, LAMBDA r : r.is_manual)
Accepted(cands) == SelectSeq(cands, LAMBDA c : c.verdict = "ok")
\* the step of p is a source discovery: that of DiscoverSourcesNow, or the
\* bootstrap of a refresh
Discovers(p) ==
    /\ proc'[p] # proc[p]
    /\ \/ proc[p].pc = "locked" /\ proc[p].op = "DiscoverSourcesNow"
       \/ proc[p].pc = "discover" /\ InNewsRefresh(p)
DiscoveryFailed(p) ==
    IF proc[p].op = "DiscoverSourcesNow" THEN proc'[p].res = "error"
    ELSE Status(IdOf(p))'.error_message = "discover sources"
\* C37: a source discovery whose provider call fails leaves the sources of
\* the topic as they were.  One whose call succeeds leaves the manual sources
\* of the topic, in their order and unchanged, followed by one new
\* non-manual source for each candidate that passed validation, and nothing
\* else: only the manual sources when no candidate passed.
C37_DiscoveryKeepsManual ==
    [][\A p \in {q \in Procs : proc'[q] # proc[q]} :
          Discovers(p) =>
              LET id == IdOf(p)
                  before == Sources(id)
                  after == Sources(id)'
              IN  /\ Manual(after) = Manual(before)
                  /\ IF DiscoveryFailed(p) THEN after = before
                     ELSE \E cands \in Suggestions :
                            after = Manual(before) \o
                                    [i \in 1..Len(Accepted(cands)) |->
                                        SourceRow(finalURL(Accepted(cands)[i]), FALSE)]]_vars
\* a DiscoverSourcesNow has returned without error and the topic is left
\* with its manual source alone, which has failed in a refresh before
C37_OnlyManualLeft ==
    \E c \in CallProcs :
        /\ proc[c].pc = "ret" /\ proc[c].op = "DiscoverSourcesNow" /\ proc[c].res = "ok"
        /\ Len(Sources(proc[c].id)) = 1
        /\ Sources(proc[c].id)[1].is_manual
        /\ Sources(proc[c].id)[1].failure_count > 0

\* ---------------------------------------------------------------- C38
StatusWriteErrors ==
    {"discover sources", "no sources available", "failed to scrape any content",
     "summarize content", "panic"}
\* C38: a status write stores a whole row, none of whose columns comes from
\* the row before: the in_progress row and the failed rows have the zero
\* time as last_refresh, the completed row has the time of the write.  The
\* stored last_refresh is therefore a real time only in a row whose status
\* is completed.
C38_WholeRowWritten ==
    /\ [](\A id \in NewsIds :
            /\ Status(id).last_refresh.valid => Status(id).status = "completed"
            /\ Status(id).status \in {"in_progress", "failed"} =>
                    Status(id).last_refresh = NoTime)
    /\ [][\A id \in NewsIds :
            Status(id)' # Status(id) =>
                \/ Tick
                \/ /\ Status(id)'.status = "in_progress"
                   /\ Status(id)' = [status |-> "in_progress", last_refresh |-> NoTime,
                                     next_refresh |-> NoTime, error_message |-> ""]
                \/ /\ Status(id)'.status = "failed"
                   /\ Status(id)'.error_message \in StatusWriteErrors
                   /\ Status(id)' = [status |-> "failed", last_refresh |-> NoTime,
                                     next_refresh |-> NowPlus(BackoffMinutes),
                                     error_message |-> Status(id)'.error_message]
                \/ /\ Status(id)'.status = "completed"
                   /\ Status(id)' = [status |-> "completed", last_refresh |-> Now,
                                     next_refresh |-> NowPlus(RefreshIntervalMinutes),
                                     error_message |-> ""]]_vars
\* topic 1 was refreshed to completion in an earlier pass (its
\* last_refreshed_at is set) and a later refresh of it has failed: the status
\* row has no last_refresh any more
C38_LastRefreshReset ==
    /\ db.news_topics[1].last_refreshed_at.valid
    /\ Status(1).status = "failed"
    /\ Status(1).last_refresh = NoTime
    /\ \E p \in Procs : Refreshing(p) /\ IdOf(p) = 1 /\ proc[p].pc = "ret"

\* ---------------------------------------------------------------- C39
\* candidate k of the batch of p is similar to a fact in rows
Matches(p, k, rows) ==
    \E j \in 1..Len(rows) :
        Similar(BatchFacts(proc[p].snap)[k], GramsOf(rows[j]), ThresholdNum, ThresholdDen)
\* C39: a facts refresh compares a candidate with the facts of its own topic
\* that are not archived, and with the facts it has accepted before it, and
\* with nothing else.  A candidate similar to none of these is persisted,
\* whatever archived facts the topic has and whatever facts the other topics
\* have; one similar to a fact of the topic that is not archived is not; and
\* the facts of the other topics are left as they are.
C39_ComparedWithLiveFactsOfTopic ==
    [][\A p \in {q \in Procs : proc'[q] # proc[q]} :
          Stores(p) /\ AllWritesSucceed(p) =>
              LET id == IdOf(p)
                  batch == BatchFacts(proc[p].snap)
                  new == Persisted(id)
                  wasPersisted(k) == \E n \in 1..Len(new) : GramsOf(new[n]) = batch[k]
              IN  /\ PersistsKept(p, Live(db.facts[id]))
                  /\ \A k \in 1..Len(batch) :
                        /\ (/\ ~Matches(p, k, Live(db.facts[id]))
                            /\ \A j \in 1..(k - 1) :
                                  ~Similar(batch[j], batch[k], ThresholdNum, ThresholdDen))
                               => wasPersisted(k)
                        /\ Matches(p, k, Live(db.facts[id])) => ~wasPersisted(k)
                  /\ \A other \in FactIds \ {id} : db'.facts[other] = db.facts[other]]_vars
\* topic 1 has a deleted fact and, from its refresh, a fact of the same
\* text; topic 2, which had no fact, has from its refresh a fact of that text
\* too
C39_PersistedBesideArchived ==
    /\ \E g \in {l.grams : l \in WriteLines} :
          /\ db.facts[1] = <<FactRow(g, TRUE), FactRow(g, FALSE)>>
          /\ db.facts[2] = <<FactRow(g, FALSE)>>
    /\ \A id \in {1, 2} : db.api_usage_log[id] = APIUsageRow("", 1, 0)
    /\ \A u \in FactUnits : proc[u].pc \in {"idle", "ret", "done"}
====
